---- MODULE Spec2Model ----
(***************************************************************************)
(* Apple Health import pipeline of Moove: parseHealthExport's chunk loop,  *)
(* the three regex extractors, the HealthImport component that drives it,  *)
(* and the merge into the persisted store.                                 *)
(*                                                                         *)
(* Text is a sequence of characters.  A character is a record              *)
(*   [k |-> kind, s |-> string payload, n |-> numeric payload]             *)
(* The punctuation "<", "/", ">" and filler text "x" are characters of     *)
(* their own; an element name (Workout, Record, ...) is one character and  *)
(* an attribute name="value" (with its leading blank) is one character     *)
(* whose payload is the value.  JavaScript string indices are 0-based and  *)
(* are kept 0-based here.                                                  *)
(***************************************************************************)
EXTENDS Integers, Sequences, FiniteSets, TLC

\* ------------------------------------------------------------------ bounds
\* Number of elements a document is built from.
MaxElems == 3
\* Largest chunk size tried (CHUNK_SIZE ranges over 1..MaxChunk and Whole).
MaxChunk == 3
\* Number of parseHealthExport calls in one behaviour.
MaxParses == 2
\* Largest active energy (kcal) and longest duration (min) of the workouts
\* whose effort is estimated.
MaxEnergy == 20
MaxMinutes == 3

\* ------------------------------------------------------------- characters
Ch(k) == [k |-> k, s |-> "", n |-> 0]
Attr(k, s, n) == [k |-> k, s |-> s, n |-> n]
Num(k, n) == [k |-> k, s |-> "", n |-> n]
Str(k, s) == [k |-> k, s |-> s, n |-> 0]

\* A missing capture group / absent optional field.
undefined == [k |-> "undefined", s |-> "undefined", n |-> 0]
\* The absent value of an optional numeric field of a result object.
None == -999999
\* parseFloat's answer for text that does not start with a number.
NaN == -888888

SetMax(S) == CHOOSE x \in S : \A y \in S : y <= x
SetMin(S) == CHOOSE x \in S : \A y \in S : x <= y

\* ----------------------------------------------------- String.prototype
OccursAt(text, pat, i) ==
  /\ i >= 0
  /\ i + Len(pat) <= Len(text)
  /\ \A j \in 1..Len(pat) : text[i + j] = pat[j]

lastIndexOf(text, pat) ==
  LET S == {i \in 0..(Len(text) - Len(pat)) : OccursAt(text, pat, i)}
  IN IF S = {} THEN -1 ELSE SetMax(S)

indexOf(text, pat, from) ==
  LET S == {i \in from..(Len(text) - Len(pat)) : OccursAt(text, pat, i)}
  IN IF S = {} THEN -1 ELSE SetMin(S)

substring(text, a, b) == SubSeq(text, a + 1, b)

WorkoutClose == <<Ch("<"), Ch("/"), Ch("Workout"), Ch(">")>>
SelfClose == <<Ch("/"), Ch(">")>>

\* ------------------------------------------------------------ Math, Date
IsNum(x) == x # NaN /\ x # None

\* Math.round(a / b) for b > 0: the nearest integer, halves rounded up.
RoundDiv(a, b) == IF a = NaN THEN NaN ELSE (2 * a + b) \div (2 * b)

Mul(a, b) == IF a = NaN \/ b = NaN THEN NaN ELSE a * b

\* parseFloat of an attribute value: the number when the value is numeric.
parseFloat(c) == IF c.s = "" /\ c.k # "undefined" THEN c.n ELSE NaN

\* A date string is "<local hour n> <zone s>"; any other zone text makes the
\* string unparseable (Invalid Date).
ZoneOffset(s) == CASE s = "+0000" -> 0
                   [] s = "-0500" -> 0 - 5
                   [] s = "+0900" -> 9
                   [] OTHER -> 0
ValidDate(c) == c.s \in {"+0000", "-0500", "+0900"}

\* new Date(str).getTime(): the instant, in hours since the epoch.
DateTime(c) == c.n - ZoneOffset(c.s)

\* new Date(str).toISOString().split('T')[0]: the UTC calendar day.
IsoDay(c) == DateTime(c) \div 24

\* ------------------------------------------------------------------ RegExp
\* One attribute test of a pattern: name="([^"]*)" captures any value, and
\* name="literal" fits that value only.
Want(k) == [k |-> k, lit |-> FALSE, s |-> ""]
WantLit(k, s) == [k |-> k, lit |-> TRUE, s |-> s]
Fits(c, w) == c.k = w.k /\ (w.lit => c.s = w.s)

\* Characters that are no attribute: an element name must be followed by
\* white space (\s), which only an attribute character carries.
ElementNames == {"Workout", "Record", "ActivitySummary", "WorkoutStatistics"}
IsAttr(c) == c.k \notin ({"<", "/", ">", "x", "undefined"} \cup ElementNames)

NoMatch == [ok |-> FALSE, index |-> 0, end |-> 0, groups |-> << >>]

\* [^>]*?name="..." repeated: the lazy left-to-right match of the tests
\* against text[from..to] (1-based, no ">" inside): the matched positions.
RECURSIVE Captures(_, _, _, _)
Captures(text, from, to, wants) ==
  IF wants = << >> THEN [ok |-> TRUE, at |-> << >>]
  ELSE LET S == {i \in from..to : Fits(text[i], Head(wants))}
       IN IF S = {} THEN [ok |-> FALSE, at |-> << >>]
          ELSE LET i == SetMin(S)
                   r == Captures(text, i + 1, to, Tail(wants))
               IN [ok |-> r.ok, at |-> <<i>> \o r.at]

\* The capture groups of a match: the text at the positions `at` of the
\* tests C that are no literal, in their order.
GroupsAt(text, at, C) ==
  [k \in 1..Cardinality(C) |->
     text[at[CHOOSE g \in C : Cardinality({h \in C : h <= g}) = k]]]

\* The match array, given the positions r the tests matched at.
MatchOf(text, p, e, r, wants) ==
  IF ~r.ok THEN NoMatch
  ELSE [ok |-> TRUE, index |-> p, end |-> e,
        groups |-> GroupsAt(text, r.at, {g \in 1..Len(wants) : ~wants[g].lit})]

\* The match of a tag that starts at p and whose first ">" is at e.
MatchUpTo(text, p, e, wants) ==
  MatchOf(text, p, e, Captures(text, p + 3, e - 1, wants), wants)

\* /<Name\s[^>]*?a1="([^"]*)"[^>]*?a2=...[^>]*?\/?>/ tried at 0-based index p.
ExecAt(text, p, name, wants) ==
  IF ~(/\ p + 3 <= Len(text)
       /\ text[p + 1] = Ch("<")
       /\ text[p + 2] = Ch(name)
       /\ IsAttr(text[p + 3])
       /\ \E j \in (p + 3)..Len(text) : text[j] = Ch(">"))
  THEN NoMatch
  ELSE MatchUpTo(text, p, SetMin({j \in (p + 3)..Len(text) : text[j] = Ch(">")}), wants)

\* The leftmost of the matches M[p] tried at each index p.
FirstMatch(M) ==
  LET P == {p \in DOMAIN M : M[p].ok}
  IN IF P = {} THEN NoMatch ELSE M[SetMin(P)]

\* regex.exec(text) of a /g pattern whose lastIndex is `lastIndex`.
Exec(text, lastIndex, name, wants) ==
  FirstMatch([p \in lastIndex..(Len(text) - 1) |-> ExecAt(text, p, name, wants)])

\* match[i] of a destructured match array (match[0] is the whole match).
Group(m, i) == IF i \in 1..Len(m.groups) THEN m.groups[i] ELSE undefined

WORKOUT_REGEX == <<Want("workoutActivityType"), Want("duration"),
                   Want("durationUnit"), Want("startDate"), Want("endDate")>>
BODY_MASS_REGEX == <<WantLit("type", "HKQuantityTypeIdentifierBodyMass"),
                     Want("value"), Want("unit"), Want("startDate")>>
BODY_FAT_REGEX == <<WantLit("type", "HKQuantityTypeIdentifierBodyFatPercentage"),
                    Want("value"), Want("startDate")>>
ACTIVITY_SUMMARY_REGEX == <<Want("dateComponents"), Want("activeEnergyBurned"),
                            Want("appleExerciseTime"), Want("appleStandHours")>>

\* ------------------------------------------------------- workout mapping
Mapping(name, cardioType, blockType) ==
  [name |-> name, cardioType |-> cardioType, blockType |-> blockType]

WORKOUT_TYPE_MAP ==
  [t \in {"HKWorkoutActivityTypeRunning", "HKWorkoutActivityTypeWalking",
          "HKWorkoutActivityTypeHiking", "HKWorkoutActivityTypeCycling",
          "HKWorkoutActivityTypeTraditionalStrengthTraining",
          "HKWorkoutActivityTypeFunctionalStrengthTraining",
          "HKWorkoutActivityTypeYoga",
          "HKWorkoutActivityTypeHighIntensityIntervalTraining",
          "HKWorkoutActivityTypeRowing", "HKWorkoutActivityTypeCoreTraining",
          "HKWorkoutActivityTypeFlexibility", "HKWorkoutActivityTypePilates",
          "HKWorkoutActivityTypeElliptical", "HKWorkoutActivityTypeStairClimbing",
          "HKWorkoutActivityTypeCrossTraining", "HKWorkoutActivityTypeMixedCardio",
          "HKWorkoutActivityTypeSwimming", "HKWorkoutActivityTypeDance",
          "HKWorkoutActivityTypeCooldown", "HKWorkoutActivityTypeTrailRunning"} |->
     CASE t = "HKWorkoutActivityTypeRunning" -> Mapping("Run", "run", "cardio")
       [] t = "HKWorkoutActivityTypeWalking" -> Mapping("Walk", "walk", "cardio")
       [] t = "HKWorkoutActivityTypeHiking" -> Mapping("Hike", "hike", "cardio")
       [] t = "HKWorkoutActivityTypeCycling" -> Mapping("Cycling", "", "cardio")
       [] t = "HKWorkoutActivityTypeTraditionalStrengthTraining" ->
            Mapping("Strength Training", "", "strength")
       [] t = "HKWorkoutActivityTypeFunctionalStrengthTraining" ->
            Mapping("Functional Training", "", "strength")
       [] t = "HKWorkoutActivityTypeYoga" -> Mapping("Yoga", "", "cooldown")
       [] t = "HKWorkoutActivityTypeHighIntensityIntervalTraining" ->
            Mapping("HIIT", "", "conditioning")
       [] t = "HKWorkoutActivityTypeRowing" -> Mapping("Rowing", "", "cardio")
       [] t = "HKWorkoutActivityTypeCoreTraining" ->
            Mapping("Core Training", "", "strength")
       [] t = "HKWorkoutActivityTypeFlexibility" ->
            Mapping("Flexibility", "", "cooldown")
       [] t = "HKWorkoutActivityTypePilates" -> Mapping("Pilates", "", "strength")
       [] t = "HKWorkoutActivityTypeElliptical" ->
            Mapping("Elliptical", "", "cardio")
       [] t = "HKWorkoutActivityTypeStairClimbing" ->
            Mapping("Stair Climbing", "", "cardio")
       [] t = "HKWorkoutActivityTypeCrossTraining" ->
            Mapping("Cross Training", "", "conditioning")
       [] t = "HKWorkoutActivityTypeMixedCardio" ->
            Mapping("Mixed Cardio", "", "cardio")
       [] t = "HKWorkoutActivityTypeSwimming" -> Mapping("Swimming", "", "cardio")
       [] t = "HKWorkoutActivityTypeDance" -> Mapping("Dance", "", "conditioning")
       [] t = "HKWorkoutActivityTypeCooldown" -> Mapping("Cooldown", "", "cooldown")
       [] t = "HKWorkoutActivityTypeTrailRunning" ->
            Mapping("Trail Run", "trail-run", "cardio")]

\* type.replace('HKWorkoutActivityType', '').replace(/([A-Z])/g, ' $1').trim()
\* on the tags of the model that are no key of the table.
formatActivityType(type) ==
  CASE type = "HKWorkoutActivityTypeBarre" -> "Barre"
    [] type = "HKWorkoutActivityTypeWaterPolo" -> "Water Polo"
    [] type = "" -> ""
    [] OTHER -> type

\* ----------------------------------------------------- workout extraction
\* The first  type="<id>"[^>]*?<attr>="([^"]*)"  in context, as parseFloat
\* of its group; [found |-> FALSE] when the pattern does not match.
AttrAfter(context, i, attr) ==
  {j \in (i + 1)..Len(context) :
     /\ context[j].k = attr
     /\ \A h \in (i + 1)..(j - 1) : context[h] # Ch(">")}

StatFirst(context, attr, S) ==
  IF S = {} THEN [found |-> FALSE, value |-> NaN]
  ELSE [found |-> TRUE,
        value |-> parseFloat(context[SetMin(AttrAfter(context, SetMin(S), attr))])]

StatExec(context, typeIdentifier, attr) ==
  StatFirst(context, attr,
            {i \in 1..Len(context) :
               /\ context[i].k = "type"
               /\ context[i].s = typeIdentifier
               /\ AttrAfter(context, i, attr) # {}})

\* if (statMatch) return ...; if (qtyMatch) return ...; return null
FirstFound(statMatch, qtyMatch) ==
  IF statMatch.found THEN statMatch
  ELSE IF qtyMatch.found THEN qtyMatch
  ELSE [found |-> FALSE, value |-> NaN]

\* null is [found |-> FALSE]; a found value may itself be NaN or 0.
extractMetadataValue(context, typeIdentifier) ==
  FirstFound(StatExec(context, typeIdentifier, "sum"),
             StatExec(context, typeIdentifier, "quantity"))

\* JavaScript truthiness of a number | null.
Truthy(r) == r.found /\ r.value # NaN /\ r.value # 0

\* calPerMin < t, for calPerMin = activeCalories / (durationSeconds / 60).
CalPerMinBelow(activeCalories, durationSeconds, t) ==
  IF durationSeconds = NaN THEN FALSE
  ELSE IF durationSeconds = 0 THEN activeCalories < 0
  ELSE IF durationSeconds > 0
       THEN 60 * activeCalories < t * durationSeconds
       ELSE 60 * activeCalories > t * durationSeconds

\* The estimate on a scale that starts at 1.
estimateEffortFromOne(activeCalories, durationSeconds) ==
  LET lt(t) == CalPerMinBelow(activeCalories, durationSeconds, t)
  IN CASE lt(3) -> 1
       [] ~lt(3) /\ lt(5) -> 3
       [] ~lt(5) /\ lt(7) -> 4
       [] ~lt(7) /\ lt(9) -> 5
       [] ~lt(9) /\ lt(11) -> 6
       [] ~lt(11) /\ lt(13) -> 7
       [] ~lt(13) /\ lt(15) -> 8
       [] ~lt(15) /\ lt(18) -> 9
       [] OTHER -> 10

estimateEffort(activeCalories, durationSeconds) ==
  LET lt(t) == CalPerMinBelow(activeCalories, durationSeconds, t)
  IN CASE lt(3) -> 2
       [] ~lt(3) /\ lt(5) -> 3
       [] ~lt(5) /\ lt(7) -> 4
       [] ~lt(7) /\ lt(9) -> 5
       [] ~lt(9) /\ lt(11) -> 6
       [] ~lt(11) /\ lt(13) -> 7
       [] ~lt(13) /\ lt(15) -> 8
       [] ~lt(15) /\ lt(18) -> 9
       [] OTHER -> 10

\* WORKOUT_TYPE_MAP is a plain object: a lookup that finds no own property
\* goes on to Object.prototype.  The tags of the model it holds a property
\* for; both are functions, whose `name` is "Object" and "toString".
ObjectPrototype == {"constructor", "toString"}
FunctionName(key) == IF key = "constructor" THEN "Object" ELSE key

\* WORKOUT_TYPE_MAP[activityType] || { name: formatActivityType(...), ... }
\* An inherited property is truthy, so it is the mapping; it has neither a
\* cardioType nor a blockType (the block's type is undefined).
MappingOf(activityType) ==
  IF activityType \in DOMAIN WORKOUT_TYPE_MAP
  THEN WORKOUT_TYPE_MAP[activityType]
  ELSE IF activityType \in ObjectPrototype
  THEN Mapping(FunctionName(activityType), "", "undefined")
  ELSE Mapping(formatActivityType(activityType), "", "conditioning")

\* The duration in seconds of a parsed duration in durationUnit.
DurationSeconds(parsed, durationUnit) ==
  IF durationUnit = "min" THEN Mul(parsed, 60)
  ELSE IF durationUnit = "hr" THEN Mul(parsed, 3600)
  ELSE parsed

\* The text the statistics are looked up in: up to </Workout> when the
\* chunk has one after the match, the match itself otherwise.
ContextOf(chunk, index, end, contextEnd) ==
  IF contextEnd > index
  THEN substring(chunk, index, contextEnd + Len(WorkoutClose))
  ELSE substring(chunk, index, end)

\* The session object literal (uuid: the next fresh id).
SessionLiteral(uuid, mapping, durationSeconds, startDate, endDate, distance, energy) ==
  [id |-> uuid,
   name |-> mapping.name,
   blocks |-> <<[id |-> uuid + 1, type |-> mapping.blockType, name |-> mapping.name]>>,
   startedAt |-> DateTime(startDate),
   completedAt |-> DateTime(endDate),
   totalDuration |-> RoundDiv(durationSeconds, 1),
   overallEffort |-> IF Truthy(energy) THEN estimateEffort(energy.value, durationSeconds)
                     ELSE None,
   cardioType |-> mapping.cardioType,
   \* hundredths of a mile: Math.round(distance * 0.621371 * 100) / 100
   distance |-> IF Truthy(distance) THEN RoundDiv(distance.value * 621371, 10000)
                ELSE None]

\* walk || cycling
OrElse(walk, cycling) == IF Truthy(walk) THEN walk ELSE cycling

\* The session of a match whose statistics are looked up in context.
SessionIn(context, uuid, mapping, durationSeconds, startDate, endDate) ==
  SessionLiteral(uuid, mapping, durationSeconds, startDate, endDate,
    OrElse(extractMetadataValue(context, "HKQuantityTypeIdentifierDistanceWalkingRunning"),
           extractMetadataValue(context, "HKQuantityTypeIdentifierDistanceCycling")),
    extractMetadataValue(context, "HKQuantityTypeIdentifierActiveEnergyBurned"))

\* The session pushed for one match m.
WorkoutSession(chunk, m, uuid) ==
  SessionIn(ContextOf(chunk, m.index, m.end, indexOf(chunk, WorkoutClose, m.index)),
            uuid,
            MappingOf(Group(m, 1).s),
            DurationSeconds(parseFloat(Group(m, 2)), Group(m, 3).s),
            Group(m, 4), Group(m, 5))

\* acc = [workouts, uuid, threw]: the accumulator, the id source, and
\* whether toISOString threw a RangeError (which ends the loop).
RECURSIVE WorkoutLoop(_, _, _)
\* One turn of the while loop, m being what exec returned.
WorkoutStep(chunk, acc, m) ==
  IF ~m.ok THEN acc
  ELSE IF ~ValidDate(Group(m, 4)) \/ ~ValidDate(Group(m, 5))
  THEN [acc EXCEPT !.threw = TRUE]
  ELSE WorkoutLoop(chunk, m.end,
         [acc EXCEPT !.workouts = Append(@, WorkoutSession(chunk, m, acc.uuid)),
                     !.uuid = @ + 2])

WorkoutLoop(chunk, lastIndex, acc) ==
  WorkoutStep(chunk, acc, Exec(chunk, lastIndex, "Workout", WORKOUT_REGEX))

extractWorkoutsFromChunk(chunk, workouts, uuid) ==
  WorkoutLoop(chunk, 0, [workouts |-> workouts, uuid |-> uuid, threw |-> FALSE])

\* ------------------------------------------------ body metric extraction
\* A Map<string, BodyMetric> is the sequence of its values in insertion
\* order; Map.set of a present key keeps the key's place.
MapHas(metrics, date) == \E i \in 1..Len(metrics) : metrics[i].date = date
MapGet(metrics, date) ==
  metrics[CHOOSE i \in 1..Len(metrics) : metrics[i].date = date]
MapSet(metrics, date, value) ==
  IF MapHas(metrics, date)
  THEN [i \in 1..Len(metrics) |->
          IF metrics[i].date = date THEN value ELSE metrics[i]]
  ELSE Append(metrics, value)

NewMetric(date) ==
  [date |-> date, weight |-> None, bodyFat |-> None, source |-> "apple_health"]

\* metrics.get(date) || { date, source: 'apple_health' }
Existing(metrics, date) ==
  IF MapHas(metrics, date) THEN MapGet(metrics, date) ELSE NewMetric(date)

\* tenths of a pound: Math.round(weight * 10) / 10
Weight(parsed, unit) ==
  IF unit = "kg" THEN RoundDiv(Mul(parsed, 220462), 10000) ELSE Mul(parsed, 10)

\* acc = [metrics, threw]
RECURSIVE BodyMassLoop(_, _, _)
\* One turn of the body mass loop: const [, valueStr, unit, dateStr] = match
BodyMassStep(chunk, acc, end, valueStr, unit, dateStr) ==
  IF ~ValidDate(dateStr) THEN [acc EXCEPT !.threw = TRUE]
  ELSE BodyMassLoop(chunk, end,
         [acc EXCEPT !.metrics =
            MapSet(@, IsoDay(dateStr),
                   [Existing(@, IsoDay(dateStr)) EXCEPT
                      !.weight = Weight(parseFloat(valueStr), unit)])])

BodyMassMatch(chunk, acc, m) ==
  IF ~m.ok THEN acc
  ELSE BodyMassStep(chunk, acc, m.end, Group(m, 1), Group(m, 2).s, Group(m, 3))

BodyMassLoop(chunk, lastIndex, acc) ==
  BodyMassMatch(chunk, acc, Exec(chunk, lastIndex, "Record", BODY_MASS_REGEX))

RECURSIVE BodyFatLoop(_, _, _)
\* One turn of the body fat loop.
BodyFatStep(chunk, acc, end, valueStr, dateStr) ==
  IF ~ValidDate(dateStr) THEN [acc EXCEPT !.threw = TRUE]
  ELSE BodyFatLoop(chunk, end,
         [acc EXCEPT !.metrics =
            MapSet(@, IsoDay(dateStr),
                   [Existing(@, IsoDay(dateStr)) EXCEPT
                      !.bodyFat = Mul(Mul(parseFloat(valueStr), 100), 10)])])

\* const [, valueStr,, dateStr] = match: groups 1 and 3 of a pattern that
\* has two groups.
BodyFatMatch(chunk, acc, m) ==
  IF ~m.ok THEN acc
  ELSE BodyFatStep(chunk, acc, m.end, Group(m, 1), Group(m, 3))

BodyFatLoop(chunk, lastIndex, acc) ==
  BodyFatMatch(chunk, acc, Exec(chunk, lastIndex, "Record", BODY_FAT_REGEX))

\* The exception of the first loop leaves the function.
AfterBodyMass(chunk, mass) ==
  IF mass.threw THEN mass ELSE BodyFatLoop(chunk, 0, mass)

extractBodyMetricsFromChunk(chunk, metrics) ==
  AfterBodyMass(chunk, BodyMassLoop(chunk, 0, [metrics |-> metrics, threw |-> FALSE]))

\* ------------------------------------------- activity summary extraction
RECURSIVE ActivityLoop(_, _, _)
ActivityMatch(chunk, days, m) ==
  IF ~m.ok THEN days
  ELSE ActivityLoop(chunk, m.end,
         Append(days, [date |-> Group(m, 1).n,
                       activeEnergy |-> RoundDiv(parseFloat(Group(m, 2)), 1),
                       exerciseMinutes |-> RoundDiv(parseFloat(Group(m, 3)), 1),
                       standHours |-> RoundDiv(parseFloat(Group(m, 4)), 1)]))

ActivityLoop(chunk, lastIndex, days) ==
  ActivityMatch(chunk, days,
                Exec(chunk, lastIndex, "ActivitySummary", ACTIVITY_SUMMARY_REGEX))

extractActivityDaysFromChunk(chunk, days) == ActivityLoop(chunk, 0, days)

\* --------------------------------------------------- Array.prototype.sort
\* The stable sort of a sequence of [key, val] pairs: insertion sort.
RECURSIVE SortKeyed(_)
InsertKeyed(sorted, x) ==
  LET n == Cardinality({i \in 1..Len(sorted) : sorted[i].key <= x.key})
      \* stable: x goes after the last element whose key is <= its own,
      \* and sorted is ordered, so these are its first n elements
  IN SubSeq(sorted, 1, n) \o <<x>> \o SubSeq(sorted, n + 1, Len(sorted))
SortKeyed(pairs) ==
  IF pairs = << >> THEN << >>
  ELSE InsertKeyed(SortKeyed(SubSeq(pairs, 1, Len(pairs) - 1)), pairs[Len(pairs)])

\* The fields the comparators of the three sorts read.
StartedAt == "startedAt"
DateOf == "date"

\* seq.sort((a, b) => a[key] - b[key])
SortBy(seq, key) ==
  LET sorted == SortKeyed([i \in 1..Len(seq) |-> [key |-> seq[i][key], val |-> seq[i]]])
  IN [i \in 1..Len(seq) |-> sorted[i].val]

\* ------------------------------------------------------- File, Blob.text
\* A file is a sequence of bytes.  Every character of the model is one byte
\* except the non-ASCII letter e-acute, whose UTF-8 form is the two bytes
\* E1 and E2.
E1 == [k |-> "eacute", s |-> "", n |-> 1]
E2 == [k |-> "eacute", s |-> "", n |-> 2]
Replacement == Ch("U+FFFD")

\* Blob.text(): UTF-8 decoding of a byte range on its own; a byte sequence
\* that is incomplete within the range decodes to U+FFFD.
RECURSIVE Utf8Decode(_)
Utf8Decode(bytes) ==
  IF bytes = << >> THEN << >>
  ELSE IF Head(bytes) = E1 /\ Len(bytes) >= 2 /\ bytes[2] = E2
       THEN <<Ch("eacute")>> \o Utf8Decode(SubSeq(bytes, 3, Len(bytes)))
  ELSE IF Head(bytes) \in {E1, E2}
       THEN <<Replacement>> \o Utf8Decode(Tail(bytes))
  ELSE <<Head(bytes)>> \o Utf8Decode(Tail(bytes))

\* file.slice(offset, end).text()
SliceText(bytes, offset, end) == Utf8Decode(SubSeq(bytes, offset + 1, end))

\* A file name is the sequence of its characters.
toLowerCase(name) ==
  [i \in 1..Len(name) |->
     CASE name[i] = "X" -> "x" [] name[i] = "M" -> "m" [] name[i] = "L" -> "l"
       [] name[i] = "Z" -> "z" [] name[i] = "I" -> "i" [] name[i] = "P" -> "p"
       [] name[i] = "E" -> "e" [] OTHER -> name[i]]
endsWith(name, suffix) ==
  /\ Len(suffix) <= Len(name)
  /\ SubSeq(name, Len(name) - Len(suffix) + 1, Len(name)) = suffix

DotZip == <<".", "z", "i", "p">>
DotXml == <<".", "x", "m", "l">>

FileNames == {<<"e", ".", "x", "m", "l">>, <<"E", ".", "X", "M", "L">>,
              <<"e", ".", "z", "i", "p">>, <<"E", ".", "Z", "I", "P">>,
              <<"e", ".", "t", "x", "t">>, <<"x", "m", "l">>}

\* The name test with its second check (not an .xml name) left out.
NameErrorZipOnly(name) ==
  IF endsWith(toLowerCase(name), DotZip) THEN "unzip first" ELSE ""

\* The name test at the head of parseHealthExport ("" when the name passes).
NameError(name) ==
  LET fileName == toLowerCase(name)
  IN IF endsWith(fileName, DotZip) THEN "unzip first"
     ELSE IF ~endsWith(fileName, DotXml) THEN "select an export.xml"
     ELSE ""

\* -------------------------------------------------------------- documents
Tag(name, attrs) == <<Ch("<"), Ch(name)>> \o attrs \o <<Ch("/"), Ch(">")>>
OpenTag(name, attrs) == <<Ch("<"), Ch(name)>> \o attrs \o <<Ch(">")>>

WorkoutAttrs(type, duration, unit, start, end) ==
  <<Str("workoutActivityType", type), duration, Str("durationUnit", unit),
    Attr("startDate", start.s, start.n), Attr("endDate", end.s, end.n)>>
Statistics(type, sum) ==
  Tag("WorkoutStatistics", <<Str("type", type), Num("sum", sum)>>)
BodyMass(value, unit, date) ==
  Tag("Record", <<Str("type", "HKQuantityTypeIdentifierBodyMass"), value,
                  Str("unit", unit), Attr("startDate", date.s, date.n)>>)
BodyFat(value, date) ==
  Tag("Record", <<Str("type", "HKQuantityTypeIdentifierBodyFatPercentage"),
                  value, Attr("startDate", date.s, date.n)>>)
ActivitySummary(day, energy, minutes, hours) ==
  Tag("ActivitySummary", <<Num("dateComponents", day), Num("activeEnergyBurned", energy),
                           Num("appleExerciseTime", minutes), Num("appleStandHours", hours)>>)
At(n, zone) == [s |-> zone, n |-> n]

\* The elements documents are built from.  Structure: a workout with a
\* child element and its close, a character of two bytes, filler text.
ScanCatalog ==
  { OpenTag("Workout", WorkoutAttrs("HKWorkoutActivityTypeRunning", Num("duration", 30),
                                    "min", At(50, "+0000"), At(51, "+0000"))),
    Statistics("HKQuantityTypeIdentifierDistanceWalkingRunning", 5),
    WorkoutClose,
    <<E1, E2>>,
    <<Ch("x")>> }

\* Records: workouts (one with a non-numeric duration, one with an
\* unparseable start date), body-mass records of one UTC day written in two
\* zones and of another day, a body-fat record, activity summaries.
RecordCatalog ==
  { Tag("Workout", WorkoutAttrs("HKWorkoutActivityTypeYoga", Num("duration", 1800),
                                "sec", At(22, "-0500"), At(23, "-0500"))),
    Tag("Workout", WorkoutAttrs("HKWorkoutActivityTypeBarre", Str("duration", "abc"),
                                "sec", At(30, "+0900"), At(31, "+0900"))),
    Tag("Workout", WorkoutAttrs("HKWorkoutActivityTypeRunning", Num("duration", 1),
                                "hr", At(40, "garbage"), At(41, "+0000"))),
    BodyMass(Num("value", 70), "kg", At(30, "+0000")),
    BodyMass(Num("value", 150), "lb", At(20, "-0500")),
    BodyMass(Num("value", 160), "lb", At(2, "+0000")),
    BodyFat(Num("value", 1), At(30, "+0000")),
    ActivitySummary(2, 400, 30, 12),
    ActivitySummary(1, 500, 45, 10) }

\* Records of all three categories, some with the identity key of a
\* persisted record (UsedStore holds days 1 and 2).
MergeCatalog ==
  { Tag("Workout", WorkoutAttrs("HKWorkoutActivityTypeYoga", Num("duration", 1800),
                                "sec", At(22, "-0500"), At(23, "-0500"))),
    BodyMass(Num("value", 70), "kg", At(30, "+0000")),
    BodyMass(Num("value", 160), "lb", At(2, "+0000")),
    BodyMass(Num("value", 150), "lb", At(50, "+0000")),
    ActivitySummary(2, 400, 30, 12),
    ActivitySummary(1, 500, 45, 10) }

\* Workouts and their statistics: a self-closing workout whose end precedes
\* its start and whose duration is negative, an opening tag alone and one
\* followed by statistics, statistics whose value is 0, and the closing tag.
WorkoutCatalog ==
  { Tag("Workout", WorkoutAttrs("HKWorkoutActivityTypeYoga", Num("duration", -5),
                                "min", At(30, "+0000"), At(29, "+0000"))),
    OpenTag("Workout", WorkoutAttrs("HKWorkoutActivityTypeRunning", Num("duration", 30),
                                    "min", At(50, "+0000"), At(51, "+0000"))),
    OpenTag("Workout", WorkoutAttrs("HKWorkoutActivityTypeCycling", Num("duration", 1),
                                    "hr", At(60, "+0000"), At(61, "+0000")))
      \o Statistics("HKQuantityTypeIdentifierActiveEnergyBurned", 300)
      \o Statistics("HKQuantityTypeIdentifierDistanceCycling", 8),
    Statistics("HKQuantityTypeIdentifierDistanceWalkingRunning", 0)
      \o Statistics("HKQuantityTypeIdentifierDistanceCycling", 8),
    Statistics("HKQuantityTypeIdentifierActiveEnergyBurned", 0),
    WorkoutClose }

\* Workouts by activity type: a key of the table with a cardioType and one
\* without, tags that are no key (one word, two words), and a tag that
\* names a property of Object.prototype.
TypeCatalog ==
  { Tag("Workout", WorkoutAttrs("HKWorkoutActivityTypeRunning", Num("duration", 30),
                                "min", At(10, "+0000"), At(11, "+0000"))),
    Tag("Workout", WorkoutAttrs("HKWorkoutActivityTypeYoga", Num("duration", 30),
                                "min", At(20, "+0000"), At(21, "+0000"))),
    Tag("Workout", WorkoutAttrs("HKWorkoutActivityTypeBarre", Num("duration", 30),
                                "min", At(30, "+0000"), At(31, "+0000"))),
    Tag("Workout", WorkoutAttrs("HKWorkoutActivityTypeWaterPolo", Num("duration", 30),
                                "min", At(40, "+0000"), At(41, "+0000"))),
    Tag("Workout", WorkoutAttrs("constructor", Num("duration", 30),
                                "min", At(50, "+0000"), At(51, "+0000"))) }

\* Tags of every shape and records of every category: an opening tag, a
\* child element, a closing tag, self-closing records, filler text.
TagCatalog ==
  { OpenTag("Workout", WorkoutAttrs("HKWorkoutActivityTypeRunning", Num("duration", 30),
                                    "min", At(50, "+0000"), At(51, "+0000"))),
    Statistics("HKQuantityTypeIdentifierDistanceWalkingRunning", 5),
    WorkoutClose,
    BodyMass(Num("value", 70), "kg", At(30, "+0000")),
    ActivitySummary(2, 400, 30, 12),
    <<Ch("x")>> }

\* One closed workout of `minutes` minutes with an active energy of `kcal`.
EffortDoc(kcal, minutes) ==
  OpenTag("Workout", WorkoutAttrs("HKWorkoutActivityTypeRowing", Num("duration", minutes),
                                  "min", At(50, "+0000"), At(51, "+0000")))
    \o Statistics("HKQuantityTypeIdentifierActiveEnergyBurned", kcal)
    \o WorkoutClose
EffortEnergies == 0..MaxEnergy
EffortMinutes == 1..MaxMinutes
\* The exports whose effort is estimated, and the empty export.
EffortDocs ==
  {<< >>} \cup {EffortDoc(kcal, minutes) : kcal \in EffortEnergies, minutes \in EffortMinutes}

RECURSIVE DocsOf(_, _)
DocsOf(cat, n) ==
  IF n = 0 THEN {<< >>}
  ELSE LET D == DocsOf(cat, n - 1) IN D \cup {d \o e : d \in D, e \in cat}

\* A chunk size no smaller than any document: the file is one chunk.
Whole == 64
ChunkSizes == (1..MaxChunk) \cup {Whole}

\* --------------------------------------------------------- persisted store
\* importWorkoutSessions, importBodyMetrics, importActivityDays: each keeps
\* the incoming records whose identity key no persisted record has, appends
\* them, and returns how many it appended.
RECURSIVE KeepFresh(_, _, _)
KeepFresh(incoming, key, existing) ==
  IF incoming = << >> THEN << >>
  ELSE (IF Head(incoming)[key] \notin existing THEN <<Head(incoming)>> ELSE << >>)
       \o KeepFresh(Tail(incoming), key, existing)

importWorkoutSessions(sessions, incoming) ==
  LET existing == {sessions[i].startedAt : i \in 1..Len(sessions)}
      fresh == KeepFresh(incoming, "startedAt", existing)
  IN [stored |-> sessions \o fresh, added |-> Len(fresh)]

\* The merge with field-level merging against the persisted entries: an
\* incoming metric of a persisted date fills the fields that entry lacks.
importBodyMetricsFilling(metrics, incoming) ==
  LET existing == {metrics[i].date : i \in 1..Len(metrics)}
      fresh == KeepFresh(incoming, "date", existing)
      Of(date) == incoming[CHOOSE j \in 1..Len(incoming) : incoming[j].date = date]
      Has(date) == \E j \in 1..Len(incoming) : incoming[j].date = date
      filled == [i \in 1..Len(metrics) |->
                   IF Has(metrics[i].date) /\ metrics[i].weight = None
                   THEN [metrics[i] EXCEPT !.weight = Of(metrics[i].date).weight]
                   ELSE metrics[i]]
  IN [stored |-> filled \o fresh, added |-> Len(fresh)]

importBodyMetrics(metrics, incoming) ==
  LET existing == {metrics[i].date : i \in 1..Len(metrics)}
      fresh == KeepFresh(incoming, "date", existing)
  IN [stored |-> metrics \o fresh, added |-> Len(fresh)]

importActivityDays(days, incoming) ==
  LET existing == {days[i].date : i \in 1..Len(days)}
      fresh == KeepFresh(incoming, "date", existing)
  IN [stored |-> days \o fresh, added |-> Len(fresh)]

EmptyStore == [sessions |-> << >>, bodyMetrics |-> << >>, activityDays |-> << >>]
\* A store left by earlier use of the application.
UsedStore ==
  [sessions |-> << >>,
   bodyMetrics |-> <<[date |-> 1, weight |-> 1500, bodyFat |-> None, source |-> "manual"],
                     [date |-> 2, weight |-> None, bodyFat |-> 250, source |-> "manual"]>>,
   activityDays |-> <<[date |-> 1, activeEnergy |-> 100, exerciseMinutes |-> 10, standHours |-> 5]>>]
Stores == {UsedStore}

\* ------------------------------------------------------------------- state
VARIABLES
  disk,            \* the bytes of the export file the user has
  chunkSize,       \* CHUNK_SIZE
  store,           \* the persisted sessions, body metrics and activity days
  stage, progress, result, importCounts, error,    \* HealthImport's state
  timer,           \* handleImport's setTimeout is pending
  pc,              \* parseHealthExport: "none", "reading", "resolved", "rejected"
  caller,          \* who called it: "HealthImport" or "other"
  fileName,        \* its local fileName: file.name.toLowerCase()
  offset, remainder, workouts, bodyMetricsMap, activityDays,  \* its locals
  returned,        \* the value its promise resolved with
  thrown,          \* the error its promise rejected with
  reports,         \* the onProgress calls of the current call, in order
  fragments,       \* the values of processable handed to the extractors
  reads,           \* the byte ranges whose read was started
  uuid,            \* crypto.randomUUID: the next unused id
  parses,          \* calls of parseHealthExport so far
  imports,         \* runs of handleImport's timeout callback so far
  sessionStorage,  \* the item moove_initial_sync_done: a user id, or NoUser
  cloud,           \* the users with rows of workout_sessions in Supabase
  localHasData,    \* localStorage holds sessions
  syncs,           \* the calls of performInitialSync and where each one is
  rounds,          \* the calls of uploadAllData and downloadAllData, in order
  reloads,         \* the users for whom the page was reloaded, in order
  syncStatus,      \* the last status given to onSyncStatusChange
  syncTimeout,     \* the module's syncTimeout: a timer id, or NoTimer
  timers,          \* the timeouts that are set and have not run
  clock,           \* the time in ms
  scheduled,       \* the calls of scheduleSyncToCloud, in order
  uploading        \* the users of the timer's uploads that have not settled

vars == <<disk, chunkSize, store, stage, progress, result, importCounts, error,
          timer, pc, caller, fileName, offset, remainder, workouts, bodyMetricsMap,
          activityDays, returned, thrown, reports, fragments, reads, uuid, parses,
          imports, sessionStorage, cloud, localHasData, syncs, rounds, reloads,
          syncStatus, syncTimeout, timers, clock, scheduled, uploading>>

importVars == <<disk, chunkSize, store, stage, progress, result, importCounts, error,
                timer, pc, caller, fileName, offset, remainder, workouts,
                bodyMetricsMap, activityDays, returned, thrown, reports, fragments,
                reads, uuid, parses, imports>>

syncVars == <<sessionStorage, cloud, localHasData, syncs, rounds, reloads,
              syncStatus, syncTimeout, timers, clock, scheduled, uploading>>

Users == {"u1", "u2"}
NoUser == ""
NoTimer == 0

\* The sync service before its first call, on a device without data.
SyncIdle ==
  /\ sessionStorage = NoUser /\ cloud = {} /\ localHasData = FALSE
  /\ syncs = << >> /\ rounds = << >> /\ reloads = << >>
  /\ syncStatus = "idle" /\ syncTimeout = NoTimer /\ timers = {}
  /\ clock = 0 /\ scheduled = << >> /\ uploading = << >>

parseVars == <<pc, caller, fileName, offset, remainder, workouts, bodyMetricsMap,
               activityDays, returned, thrown, reports, fragments, reads, uuid, parses>>

Null == [set |-> FALSE, workouts |-> << >>, bodyMetrics |-> << >>, activityDays |-> << >>]
NoCounts == [set |-> FALSE, workouts |-> 0, metrics |-> 0, activity |-> 0]
NoProgress == [phase |-> "none", percent |-> 0]

Min(a, b) == IF a <= b THEN a ELSE b
Max(a, b) == IF a >= b THEN a ELSE b
Last(seq) == seq[Len(seq)]

RECURSIVE Concat(_)
Concat(seqs) == IF seqs = << >> THEN << >> ELSE Head(seqs) \o Concat(Tail(seqs))

\* The state after HealthImport is mounted, for a user whose export file is
\* one of docs and who may call parseHealthExport `budget` times.
InitImport(docs, budget) ==
  /\ disk \in docs
  /\ chunkSize \in ChunkSizes
  /\ store \in Stores
  /\ parses = MaxParses - budget
  /\ stage = "idle" /\ progress = NoProgress /\ result = Null
  /\ importCounts = NoCounts /\ error = "" /\ timer = FALSE
  /\ pc = "none" /\ caller = "none" /\ fileName = << >>
  /\ offset = 0 /\ remainder = << >> /\ workouts = << >>
  /\ bodyMetricsMap = << >> /\ activityDays = << >>
  /\ returned = Null /\ thrown = ""
  /\ reports = << >> /\ fragments = << >> /\ reads = << >>
  /\ uuid = 1 /\ imports = 0

InitWith(docs, budget) == InitImport(docs, budget) /\ SyncIdle

Init == InitWith(DocsOf(ScanCatalog, MaxElems), 1)
InitRecords == InitWith(DocsOf(RecordCatalog, MaxElems), 1)
InitMerge == InitWith(DocsOf(MergeCatalog, MaxElems), MaxParses)
InitWorkouts == InitWith(DocsOf(WorkoutCatalog, MaxElems), 1)
InitTypes == InitWith(DocsOf(TypeCatalog, MaxElems), 1)
InitEffort == InitWith(EffortDocs, 1)
InitTags == InitWith(DocsOf(TagCatalog, MaxElems), 1)

\* ------------------------------------------------------ parseHealthExport
\* The split point one character short of the end of the last "/>".
SplitAtInsideTag(text) ==
  LET lastWorkoutClose == lastIndexOf(text, WorkoutClose)
      lastSelfClose == lastIndexOf(text, SelfClose)
  IN Max(IF lastSelfClose >= 0 THEN lastSelfClose + 1 ELSE -1,
         IF lastWorkoutClose >= 0 THEN lastWorkoutClose + Len(WorkoutClose) ELSE -1)

\* The safe split point of a non-final text.
SplitAt(text) ==
  LET lastWorkoutClose == lastIndexOf(text, WorkoutClose)
      lastSelfClose == lastIndexOf(text, SelfClose)
  IN Max(IF lastSelfClose >= 0 THEN lastSelfClose + 2 ELSE -1,
         IF lastWorkoutClose >= 0 THEN lastWorkoutClose + Len(WorkoutClose) ELSE -1)

\* The percentage of what is left to read instead of what was read.
PctRemaining(end, size) == RoundDiv((size - end) * 95, size)

\* The percentage rounded down.
PctFloor(end, size) == (end * 95) \div size

\* Math.round((end / file.size) * 95)
Pct(end, size) == RoundDiv(end * 95, size)

\* The result with the three sorts left out.
FinalizeUnsorted(ws, metrics, days) ==
  [set |-> TRUE, workouts |-> ws, bodyMetrics |-> metrics, activityDays |-> days]

\* The sorted result the function returns.
Finalize(ws, metrics, days) ==
  [set |-> TRUE,
   workouts |-> SortBy(ws, StartedAt),
   bodyMetrics |-> SortBy(metrics, DateOf),
   activityDays |-> SortBy(days, DateOf)]

Parsing(pct) == [phase |-> "parsing", percent |-> pct]
Done == [phase |-> "done", percent |-> 100]

\* What HealthImport does with the call's outcome (handleFileSelect's
\* try/catch around the await, and setProgress as onProgress).
Continuation ==
  /\ stage' = IF caller' # "HealthImport" THEN stage
              ELSE IF pc' = "resolved" THEN "preview"
              ELSE IF pc' = "rejected" THEN "idle"
              ELSE "parsing"
  /\ result' = IF caller' = "HealthImport" /\ pc' = "resolved" THEN returned' ELSE result
  /\ error' = IF caller' # "HealthImport" THEN error
              ELSE IF pc' = "rejected" THEN thrown' ELSE ""
  /\ progress' = IF caller' = "HealthImport" /\ reports' # << >>
                 THEN Last(reports') ELSE progress
  /\ UNCHANGED <<importCounts, timer>>

\* handleFileSelect up to its await: setError(null), setStage('parsing') and
\* the call, whose onProgress is setProgress.  A call that returns before
\* its first await (an empty file) leaves the handler waiting all the same.
Awaiting ==
  /\ stage' = "parsing"
  /\ error' = ""
  /\ progress' = IF reports' # << >> THEN Last(reports') ELSE progress
  /\ UNCHANGED <<result, importCounts, timer>>

\* parseHealthExport(file, onProgress) up to its first await.
Call(name, who) ==
  LET size == Len(disk) IN
  /\ parses < MaxParses
  /\ parses' = parses + 1
  /\ caller' = who
  /\ fileName' = toLowerCase(name)
  /\ offset' = 0 /\ remainder' = << >> /\ fragments' = << >>
  /\ bodyMetricsMap' = << >> /\ activityDays' = << >> /\ workouts' = << >>
  /\ uuid' = 100 * parses' + 1
  /\ IF NameError(name) # ""
     THEN /\ pc' = "rejected" /\ thrown' = NameError(name)
          /\ returned' = Null /\ reports' = << >> /\ reads' = << >>
     ELSE IF size = 0
     THEN /\ pc' = "resolved" /\ thrown' = ""
          /\ returned' = Finalize(<< >>, << >>, << >>)
          /\ reports' = <<Parsing(0), Done>> /\ reads' = << >>
     ELSE /\ pc' = "reading" /\ thrown' = ""
          /\ returned' = Null
          /\ reports' = <<Parsing(0)>>
          /\ reads' = <<[offset |-> 0, end |-> Min(chunkSize, size)]>>
  /\ UNCHANGED <<disk, chunkSize, store, imports>>

\* A caller other than HealthImport calls the exported function.
CallParseHealthExport ==
  /\ pc # "reading"
  /\ stage = "idle"
  /\ \E name \in FileNames : Call(name, "other")
  /\ Continuation
  /\ UNCHANGED syncVars

\* The loop body from the extractor calls on: w, b and a are what the three
\* extractors leave, emit whether they were called at all.
Extracted(size, end, emit, w, b, a) ==
  LET next == offset + chunkSize IN
  IF emit /\ (w.threw \/ b.threw)
  THEN \* toISOString threw inside an extractor: the call rejects
       /\ pc' = "rejected" /\ thrown' = "Invalid time value"
       /\ workouts' = w.workouts /\ uuid' = w.uuid
       /\ bodyMetricsMap' = IF w.threw THEN bodyMetricsMap ELSE b.metrics
       /\ UNCHANGED <<activityDays, offset, reports, reads, returned>>
  ELSE /\ thrown' = ""
       /\ uuid' = IF emit THEN w.uuid ELSE uuid
       /\ bodyMetricsMap' = IF emit THEN b.metrics ELSE bodyMetricsMap
       /\ offset' = next
       /\ IF next < size
          THEN /\ pc' = "reading"
               /\ workouts' = IF emit THEN w.workouts ELSE workouts
               /\ activityDays' = IF emit THEN a ELSE activityDays
               /\ reports' = IF emit THEN Append(reports, Parsing(Pct(end, size)))
                             ELSE reports
               /\ reads' = Append(reads, [offset |-> next,
                                          end |-> Min(next + chunkSize, size)])
               /\ returned' = Null
          ELSE /\ pc' = "resolved"
               /\ returned' = Finalize(w.workouts, b.metrics, a)
               /\ workouts' = returned'.workouts
               /\ activityDays' = returned'.activityDays
               /\ reports' = reports \o <<Parsing(Pct(end, size)), Done>>
               /\ UNCHANGED reads

\* The extractor calls with the body metric extractor left out.
ExtractNoMetrics(size, end, emit, processable) ==
  /\ fragments' = IF emit THEN Append(fragments, processable) ELSE fragments
  /\ Extracted(size, end, emit,
               extractWorkoutsFromChunk(processable, workouts, uuid),
               [metrics |-> bodyMetricsMap, threw |-> FALSE],
               extractActivityDaysFromChunk(processable, activityDays))

\* The extractor calls on processable (none when the text is carried forward).
Extract(size, end, emit, processable) ==
  /\ fragments' = IF emit THEN Append(fragments, processable) ELSE fragments
  /\ Extracted(size, end, emit,
               extractWorkoutsFromChunk(processable, workouts, uuid),
               extractBodyMetricsFromChunk(processable, bodyMetricsMap),
               extractActivityDaysFromChunk(processable, activityDays))

\* The cut that hands the whole text over when it finds no split point.
CutOrAll(size, end, text, final, splitAt) ==
  /\ remainder' = IF final \/ splitAt <= 0 THEN << >>
                  ELSE substring(text, splitAt, Len(text))
  /\ Extract(size, end, TRUE,
             IF final \/ splitAt <= 0 THEN text ELSE substring(text, 0, splitAt))

\* The cut that carries the whole text forward, the part handed to the
\* extractors included.
CutKeepingText(size, end, text, final, splitAt) ==
  /\ remainder' = IF final THEN << >> ELSE text
  /\ Extract(size, end, final \/ splitAt > 0,
             IF final THEN text
             ELSE IF splitAt > 0 THEN substring(text, 0, splitAt)
             ELSE << >>)

\* The cut of text = remainder + chunkText; final: this is the last chunk.
Cut(size, end, text, final, splitAt) ==
  /\ remainder' = IF final THEN << >>
                  ELSE IF splitAt > 0 THEN substring(text, splitAt, Len(text))
                  ELSE text
  /\ Extract(size, end, final \/ splitAt > 0,
             IF final THEN text
             ELSE IF splitAt > 0 THEN substring(text, 0, splitAt)
             ELSE << >>)

\* The loop body once chunkText is there.
Body(size, end, text) == Cut(size, end, text, ~(end < size), SplitAt(text))

\* slice.text() resolved: the rest of the loop body, and the loop on to the
\* next await or to the return.
ChunkRead ==
  /\ pc = "reading"
  /\ Body(Len(disk), Min(offset + chunkSize, Len(disk)),
          remainder \o SliceText(disk, offset, Min(offset + chunkSize, Len(disk))))
  /\ UNCHANGED <<caller, fileName, parses, disk, chunkSize, store, imports>>
  /\ Continuation
  /\ UNCHANGED syncVars

\* A failed read swallowed: the function returns what it has so far.
ChunkReadFailSwallowed ==
  /\ pc = "reading"
  /\ pc' = "resolved"
  /\ thrown' = "NotReadableError"
  /\ returned' = Finalize(workouts, bodyMetricsMap, activityDays)
  /\ reports' = Append(reports, Done)
  /\ UNCHANGED <<caller, fileName, offset, remainder, workouts, bodyMetricsMap,
                 activityDays, fragments, reads, uuid, parses,
                 disk, chunkSize, store, imports>>
  /\ Continuation
  /\ UNCHANGED syncVars

\* slice.text() rejected: the read of the byte range failed.
ChunkReadFail ==
  /\ pc = "reading"
  /\ pc' = "rejected"
  /\ thrown' = "NotReadableError"
  /\ UNCHANGED <<caller, fileName, offset, remainder, workouts, bodyMetricsMap,
                 activityDays, returned, reports, fragments, reads, uuid, parses,
                 disk, chunkSize, store, imports>>
  /\ Continuation
  /\ UNCHANGED syncVars

\* ------------------------------------------------------------ HealthImport
handleFileSelect ==
  /\ stage = "idle"
  /\ pc # "reading"
  /\ \E name \in FileNames :
       LET lower == toLowerCase(name) IN
       IF endsWith(lower, DotZip) \/ ~endsWith(lower, DotXml)
       THEN /\ error' = IF endsWith(lower, DotZip) THEN "unzip first"
                        ELSE "select an export.xml from your export"
            /\ UNCHANGED <<stage, progress, result, importCounts, timer>>
            /\ UNCHANGED parseVars
            /\ UNCHANGED <<disk, chunkSize, store, imports>>
       ELSE Call(name, "HealthImport") /\ Awaiting
  /\ UNCHANGED syncVars

\* handleFileSelect after its await, for a call that had ended before the
\* handler came to wait for it.
AwaitResumes ==
  /\ stage = "parsing"
  /\ caller = "HealthImport"
  /\ pc \in {"resolved", "rejected"}
  /\ stage' = IF pc = "resolved" THEN "preview" ELSE "idle"
  /\ result' = IF pc = "resolved" THEN returned ELSE result
  /\ error' = IF pc = "rejected" THEN thrown ELSE error
  /\ UNCHANGED <<progress, importCounts, timer>>
  /\ UNCHANGED parseVars
  /\ UNCHANGED <<disk, chunkSize, store, imports>>
  /\ UNCHANGED syncVars

\* "Import All" with the test of the stage left out.
handleImportAnyStage ==
  /\ result.set
  /\ ~(result.workouts = << >> /\ result.bodyMetrics = << >> /\ result.activityDays = << >>)
  /\ stage' = "importing"
  /\ timer' = TRUE
  /\ UNCHANGED <<progress, result, importCounts, error>>
  /\ UNCHANGED parseVars
  /\ UNCHANGED <<disk, chunkSize, store, imports>>
  /\ UNCHANGED syncVars

\* "Import All" in the preview; the button is disabled for an empty result.
handleImport ==
  /\ stage = "preview"
  /\ result.set
  /\ ~(result.workouts = << >> /\ result.bodyMetrics = << >> /\ result.activityDays = << >>)
  /\ stage' = "importing"
  /\ timer' = TRUE
  /\ UNCHANGED <<progress, result, importCounts, error>>
  /\ UNCHANGED parseVars
  /\ UNCHANGED <<disk, chunkSize, store, imports>>
  /\ UNCHANGED syncVars

\* The callback with the workouts saved as they come, without the merge.
ImportTimeoutSavesAll ==
  /\ timer
  /\ LET m == importBodyMetrics(store.bodyMetrics, result.bodyMetrics)
         a == importActivityDays(store.activityDays, result.activityDays)
     IN /\ store' = [sessions |-> store.sessions \o result.workouts,
                     bodyMetrics |-> m.stored, activityDays |-> a.stored]
        /\ importCounts' = [set |-> TRUE, workouts |-> Len(result.workouts),
                            metrics |-> m.added, activity |-> a.added]
  /\ stage' = "done"
  /\ timer' = FALSE
  /\ imports' = imports + 1
  /\ UNCHANGED <<progress, result, error>>
  /\ UNCHANGED parseVars
  /\ UNCHANGED <<disk, chunkSize>>
  /\ UNCHANGED syncVars

\* The setTimeout callback of handleImport.
ImportTimeout ==
  /\ timer
  /\ LET w == importWorkoutSessions(store.sessions, result.workouts)
         m == importBodyMetrics(store.bodyMetrics, result.bodyMetrics)
         a == importActivityDays(store.activityDays, result.activityDays)
     IN /\ store' = [sessions |-> w.stored, bodyMetrics |-> m.stored,
                     activityDays |-> a.stored]
        /\ importCounts' = [set |-> TRUE, workouts |-> w.added,
                            metrics |-> m.added, activity |-> a.added]
  /\ stage' = "done"
  /\ timer' = FALSE
  /\ imports' = imports + 1
  /\ UNCHANGED <<progress, result, error>>
  /\ UNCHANGED parseVars
  /\ UNCHANGED <<disk, chunkSize>>
  /\ UNCHANGED syncVars

\* The setTimeout callback when the persistence layer fails to insert the
\* category `failed`: the exception leaves the callback, which has no
\* try/catch, after the categories before it were persisted.
ImportTimeoutThrows ==
  /\ timer
  /\ \E failed \in {"workouts", "metrics", "activity"} :
       LET w == importWorkoutSessions(store.sessions, result.workouts)
           m == importBodyMetrics(store.bodyMetrics, result.bodyMetrics)
       IN store' = [sessions |-> IF failed = "workouts" THEN store.sessions ELSE w.stored,
                    bodyMetrics |-> IF failed = "activity" THEN m.stored
                                    ELSE store.bodyMetrics,
                    activityDays |-> store.activityDays]
  /\ timer' = FALSE
  /\ UNCHANGED <<stage, progress, result, importCounts, error, imports>>
  /\ UNCHANGED parseVars
  /\ UNCHANGED <<disk, chunkSize>>
  /\ UNCHANGED syncVars

\* "Cancel" in the preview, "Done" after the import.
handleReset ==
  /\ stage \in {"preview", "done"}
  /\ stage' = "idle"
  /\ progress' = NoProgress
  /\ result' = Null
  /\ importCounts' = NoCounts
  /\ error' = ""
  /\ UNCHANGED timer
  /\ UNCHANGED parseVars
  /\ UNCHANGED <<disk, chunkSize, store, imports>>
  /\ UNCHANGED syncVars

Next ==
  \/ handleFileSelect
  \/ AwaitResumes
  \/ ChunkRead
  \/ ChunkReadFail
  \/ handleImport
  \/ ImportTimeout
  \/ handleReset

Spec == Init /\ [][Next]_vars
SpecRecords == InitRecords /\ [][Next]_vars
SpecMerge == InitMerge /\ [][Next]_vars
SpecWorkouts == InitWorkouts /\ [][Next]_vars
SpecTypes == InitTypes /\ [][Next]_vars
SpecEffort == InitEffort /\ [][Next]_vars
SpecTags == InitTags /\ [][Next]_vars

\* parseHealthExport under any caller of the exported function.
NextApi ==
  \/ CallParseHealthExport
  \/ ChunkRead
  \/ ChunkReadFail

SpecApi == Init /\ [][NextApi]_vars

\* HealthImport over a persistence layer whose inserts can fail.
InitStoreFail == InitWith(DocsOf(MergeCatalog, MaxElems), 1)
NextStoreFail ==
  \/ handleFileSelect
  \/ AwaitResumes
  \/ ChunkRead
  \/ ChunkReadFail
  \/ handleImport
  \/ ImportTimeout
  \/ ImportTimeoutThrows
  \/ handleReset

SpecStoreFail == InitStoreFail /\ [][NextStoreFail]_vars

\* ------------------------------------------------------------ supabaseSync
MaxSyncs == 3

\* uploadAllData and downloadAllData as they start: the call is noted and
\* the status becomes 'syncing'.
Round(op, userId, by) ==
  [op |-> op, userId |-> userId, by |-> by, at |-> clock, calls |-> Len(scheduled)]

\* What uploadAllData leaves in Supabase and downloadAllData in localStorage
\* once their requests have succeeded.
Uploaded(userId) == IF localHasData THEN cloud \cup {userId} ELSE cloud
Downloaded(userId) == localHasData \/ userId \in cloud

SyncCall(userId, at, round) == [userId |-> userId, at |-> at, round |-> round]

\* window.location.reload(): the page's calls in flight end with the page.
Unloaded(ss) ==
  [i \in DOMAIN ss |-> IF ss[i].at = "returned" THEN ss[i]
                       ELSE [ss[i] EXCEPT !.at = "unloaded"]]

\* performInitialSync(userId) up to its first await.
performInitialSync ==
  /\ Len(syncs) < MaxSyncs
  /\ \E userId \in Users :
       IF sessionStorage = userId
       THEN /\ syncStatus' = "synced"
            /\ syncs' = Append(syncs, SyncCall(userId, "returned", FALSE))
       ELSE /\ syncStatus' = "syncing"
            /\ syncs' = Append(syncs, SyncCall(userId, "hasCloudData", FALSE))
  /\ UNCHANGED <<sessionStorage, cloud, localHasData, rounds, reloads,
                 syncTimeout, timers, clock, scheduled, uploading>>
  /\ UNCHANGED importVars

\* await hasCloudData(userId) settled, with false when the request failed:
\* hasLocalData() and the choice of the branch.
HasCloudDataSettles ==
  /\ \E i \in DOMAIN syncs :
       /\ syncs[i].at = "hasCloudData"
       /\ \E cloudHasData \in {syncs[i].userId \in cloud, FALSE} :
            LET userId == syncs[i].userId IN
            IF ~cloudHasData /\ localHasData
            THEN /\ rounds' = Append(rounds, Round("upload", userId, i))
                 /\ syncs' = [syncs EXCEPT ![i] = SyncCall(userId, "upload", TRUE)]
                 /\ syncStatus' = "syncing"
                 /\ UNCHANGED sessionStorage
            ELSE IF cloudHasData /\ ~localHasData
            THEN /\ rounds' = Append(rounds, Round("download", userId, i))
                 /\ syncs' = [syncs EXCEPT ![i] = SyncCall(userId, "download", TRUE)]
                 /\ syncStatus' = "syncing"
                 /\ UNCHANGED sessionStorage
            ELSE IF cloudHasData /\ localHasData
            THEN /\ rounds' = Append(rounds, Round("upload", userId, i))
                 /\ syncs' = [syncs EXCEPT ![i] = SyncCall(userId, "mergeUpload", TRUE)]
                 /\ syncStatus' = "syncing"
                 /\ UNCHANGED sessionStorage
            ELSE /\ sessionStorage' = userId
                 /\ syncs' = [syncs EXCEPT ![i] = SyncCall(userId, "returned", FALSE)]
                 /\ syncStatus' = "synced"
                 /\ UNCHANGED rounds
  /\ UNCHANGED <<cloud, localHasData, reloads, syncTimeout, timers, clock,
                 scheduled, uploading>>
  /\ UNCHANGED importVars

\* await uploadAllData(userId) settled: the flag is set, or the merge goes on
\* to downloadAllData.
UploadSettles ==
  /\ \E i \in DOMAIN syncs :
       LET userId == syncs[i].userId IN
       /\ syncs[i].at \in {"upload", "mergeUpload"}
       /\ cloud' = Uploaded(userId)
       /\ IF syncs[i].at = "upload"
          THEN /\ sessionStorage' = userId
               /\ syncs' = [syncs EXCEPT ![i].at = "returned"]
               /\ syncStatus' = "synced"
               /\ UNCHANGED rounds
          ELSE /\ rounds' = Append(rounds, Round("download", userId, i))
               /\ syncs' = [syncs EXCEPT ![i].at = "mergeDownload"]
               /\ syncStatus' = "syncing"
               /\ UNCHANGED sessionStorage
  /\ UNCHANGED <<localHasData, reloads, syncTimeout, timers, clock, scheduled,
                 uploading>>
  /\ UNCHANGED importVars

\* await downloadAllData(userId) settled: the flag is set, and the branch
\* of a device without data reloads the page.
DownloadSettles ==
  /\ \E i \in DOMAIN syncs :
       LET userId == syncs[i].userId
           ended == [syncs EXCEPT ![i].at = "returned"]
       IN
       /\ syncs[i].at \in {"download", "mergeDownload"}
       /\ localHasData' = Downloaded(userId)
       /\ sessionStorage' = userId
       /\ syncStatus' = "synced"
       /\ IF syncs[i].at = "download"
          THEN /\ reloads' = Append(reloads, userId)
               /\ syncs' = Unloaded(ended)
               /\ syncTimeout' = NoTimer /\ timers' = {} /\ uploading' = << >>
          ELSE /\ syncs' = ended
               /\ UNCHANGED <<reloads, syncTimeout, timers, uploading>>
  /\ UNCHANGED <<cloud, rounds, clock, scheduled>>
  /\ UNCHANGED importVars

\* deleteAllCloudData(userId) with all its deletes succeeding: the rows go
\* and the flag is removed.
deleteAllCloudData ==
  /\ sessionStorage # NoUser
  /\ \E userId \in Users : cloud' = cloud \ {userId}
  /\ sessionStorage' = NoUser
  /\ UNCHANGED <<localHasData, syncs, rounds, reloads, syncStatus, syncTimeout,
                 timers, clock, scheduled, uploading>>
  /\ UNCHANGED importVars

NextInitialSync ==
  \/ performInitialSync
  \/ HasCloudDataSettles
  \/ UploadSettles
  \/ DownloadSettles
  \/ deleteAllCloudData

\* A session on a device with or without data, for users with or without
\* data in the cloud.
InitInitialSync ==
  /\ InitImport({<< >>}, 1) /\ chunkSize = Whole
  /\ sessionStorage = NoUser /\ cloud \in SUBSET Users /\ localHasData \in BOOLEAN
  /\ syncs = << >> /\ rounds = << >> /\ reloads = << >>
  /\ syncStatus = "idle" /\ syncTimeout = NoTimer /\ timers = {}
  /\ clock = 0 /\ scheduled = << >> /\ uploading = << >>

SpecInitialSync == InitInitialSync /\ [][NextInitialSync]_vars

SYNC_DEBOUNCE_MS == 2000
MaxCalls == 3
MaxTicks == 6

\* Time passes in steps of half the debounce delay.
TickMs == SYNC_DEBOUNCE_MS \div 2
MaxTime == MaxTicks * TickMs

Timeout(id, userId) == [id |-> id, userId |-> userId, due |-> clock + SYNC_DEBOUNCE_MS]

\* clearTimeout(handle)
clearTimeout(pending, handle) == {t \in pending : t.id # handle}

\* scheduleSyncToCloud(userId) with every timeout left as it is.
scheduleSyncToCloudNoClear ==
  /\ Len(scheduled) < MaxCalls
  /\ clock + SYNC_DEBOUNCE_MS <= MaxTime
  /\ \A t \in timers : t.due > clock
  /\ \E userId \in Users :
       /\ timers' = timers \cup {Timeout(Len(scheduled) + 1, userId)}
       /\ scheduled' = Append(scheduled, [userId |-> userId, at |-> clock])
  /\ syncTimeout' = Len(scheduled) + 1
  /\ UNCHANGED <<sessionStorage, cloud, localHasData, syncs, rounds, reloads,
                 syncStatus, clock, uploading>>
  /\ UNCHANGED importVars

\* scheduleSyncToCloud(userId): the timeout in syncTimeout is cleared and a
\* new one is set, whose id is a positive number.  A callback that is due
\* runs before the call.
scheduleSyncToCloud ==
  /\ Len(scheduled) < MaxCalls
  /\ clock + SYNC_DEBOUNCE_MS <= MaxTime
  /\ \A t \in timers : t.due > clock
  /\ \E userId \in Users :
       /\ timers' = (IF syncTimeout # NoTimer THEN clearTimeout(timers, syncTimeout)
                     ELSE timers) \cup {Timeout(Len(scheduled) + 1, userId)}
       /\ scheduled' = Append(scheduled, [userId |-> userId, at |-> clock])
  /\ syncTimeout' = Len(scheduled) + 1
  /\ UNCHANGED <<sessionStorage, cloud, localHasData, syncs, rounds, reloads,
                 syncStatus, clock, uploading>>
  /\ UNCHANGED importVars

\* The callback of a timeout that is due: uploadAllData(userId) starts.
\* syncTimeout keeps the id of the timeout that has run.
TimerFires ==
  /\ \E t \in timers :
       /\ t.due <= clock
       /\ timers' = timers \ {t}
       /\ rounds' = Append(rounds, Round("upload", t.userId, 0))
       /\ uploading' = Append(uploading, t.userId)
  /\ syncStatus' = "syncing"
  /\ UNCHANGED <<sessionStorage, cloud, localHasData, syncs, reloads, syncTimeout,
                 clock, scheduled>>
  /\ UNCHANGED importVars

\* The uploads of an uploadAllData that the timer started have succeeded.
TimerUploadSettles ==
  /\ uploading # << >>
  /\ cloud' = Uploaded(Head(uploading))
  /\ uploading' = Tail(uploading)
  /\ syncStatus' = "synced"
  /\ UNCHANGED <<sessionStorage, localHasData, syncs, rounds, reloads, syncTimeout,
                 timers, clock, scheduled>>
  /\ UNCHANGED importVars

\* Time passes, up to the next timeout that is due.
Tick ==
  /\ clock < MaxTime
  /\ \A t \in timers : t.due > clock
  /\ clock' = clock + TickMs
  /\ UNCHANGED <<sessionStorage, cloud, localHasData, syncs, rounds, reloads,
                 syncStatus, syncTimeout, timers, scheduled, uploading>>
  /\ UNCHANGED importVars

NextDebounce ==
  \/ scheduleSyncToCloud
  \/ TimerFires
  \/ TimerUploadSettles
  \/ Tick

InitDebounce ==
  /\ InitImport({<< >>}, 1) /\ chunkSize = Whole
  /\ sessionStorage \in Users /\ cloud = {} /\ localHasData \in BOOLEAN
  /\ syncs = << >> /\ rounds = << >> /\ reloads = << >>
  /\ syncStatus = "synced" /\ syncTimeout = NoTimer /\ timers = {}
  /\ clock = 0 /\ scheduled = << >> /\ uploading = << >>

\* A timeout that is not cleared runs once its delay has passed, and uploads
\* settle.
SpecDebounce ==
  /\ InitDebounce /\ [][NextDebounce]_vars
  /\ WF_vars(TimerFires) /\ WF_vars(Tick) /\ WF_vars(TimerUploadSettles)

\* ================================================================== claims

\* The bytes of the file whose read has completed.
BytesRead == IF pc = "resolved" THEN Len(disk) ELSE offset

\* C1 (boundary safety): while the chunk loop runs and after it, the
\* fragments handed to the extractors so far, followed by the carry-over
\* remainder, are exactly the text of the part of the document read so far,
\* and on return the fragments concatenate to the text of the whole
\* document: no character is lost or duplicated.
C1_FragmentsReproduceDocument ==
  /\ pc \in {"reading", "resolved"} =>
       Concat(fragments) \o remainder = Utf8Decode(SubSeq(disk, 1, BytesRead))
  /\ pc = "resolved" => Concat(fragments) = Utf8Decode(disk)

ZeroCounts == [set |-> TRUE, workouts |-> 0, metrics |-> 0, activity |-> 0]

\* C2 (idempotence of merge): once the document has been parsed and merged
\* into the store, the timeout callback that merges a later parse of the
\* same document (whose workouts carry fresh ids) inserts nothing: the
\* three counts are 0 and the store is unchanged.
C2_SecondImportAddsNothing ==
  [][(timer /\ imports >= 1) => (store' = store /\ importCounts' = ZeroCounts)]_vars

\* The second import has run, on workouts whose ids differ from the stored ones.
C2_Witness ==
  /\ stage = "done" /\ imports = 2
  /\ importCounts = ZeroCounts
  /\ Len(result.workouts) >= 1 /\ Len(store.sessions) >= 1
  /\ Len(result.bodyMetrics) >= 1 /\ Len(result.activityDays) >= 1
  /\ \A i \in 1..Len(result.workouts) : \A j \in 1..Len(store.sessions) :
       result.workouts[i].id # store.sessions[j].id

Sorted(seq, key) == \A i \in 1..(Len(seq) - 1) : seq[i][key] <= seq[i + 1][key]

\* C3 (sort invariants): in the result parseHealthExport returns, workouts
\* is non-decreasing in startedAt, and bodyMetrics and activityDays are
\* non-decreasing by date.
C3_ResultSorted ==
  pc = "resolved" =>
    /\ Sorted(returned.workouts, StartedAt)
    /\ Sorted(returned.bodyMetrics, DateOf)
    /\ Sorted(returned.activityDays, DateOf)

\* Two workouts of different fragments came back in the order opposite to
\* the one they were extracted in (ids grow in extraction order).
C3_Witness ==
  /\ pc = "resolved"
  /\ Len(fragments) >= 2
  /\ Len(returned.workouts) = 2
  /\ returned.workouts[1].id > returned.workouts[2].id
  /\ returned.workouts[1].startedAt < returned.workouts[2].startedAt

\* What the document holds, read off its characters.
TypeAt(doc, i, id) == doc[i].k = "type" /\ doc[i].s = id
\* The start date of the record whose type attribute is at i.
RecordDay(doc, i) ==
  IsoDay(doc[SetMin({j \in i..Len(doc) : doc[j].k = "startDate"})])
MassDays(doc) ==
  {RecordDay(doc, i) : i \in {j \in 1..Len(doc) :
                                TypeAt(doc, j, "HKQuantityTypeIdentifierBodyMass")}}
FatDays(doc) ==
  {RecordDay(doc, i) : i \in {j \in 1..Len(doc) :
                                TypeAt(doc, j, "HKQuantityTypeIdentifierBodyFatPercentage")}}
AllDatesValid(doc) ==
  \A i \in 1..Len(doc) : doc[i].k \in {"startDate", "endDate"} => ValidDate(doc[i])
NoBodyFat(doc) == FatDays(doc) = {}

\* C4 (date collapsing): a document of well-formed records whose reads all
\* succeed is parsed to a result whose bodyMetrics holds exactly one entry per
\* date of a body-mass or body-fat record, with weight set iff a body-mass
\* record has that date and bodyFat set iff a body-fat record has it.
C4_DateCollapsing ==
  (pc \in {"resolved", "rejected"} /\ thrown # "NotReadableError" /\ AllDatesValid(disk)) =>
    /\ pc = "resolved"
    /\ {returned.bodyMetrics[i].date : i \in 1..Len(returned.bodyMetrics)}
         = MassDays(disk) \cup FatDays(disk)
    /\ Len(returned.bodyMetrics) = Cardinality(MassDays(disk) \cup FatDays(disk))
    /\ \A i \in 1..Len(returned.bodyMetrics) :
         LET m == returned.bodyMetrics[i]
         IN /\ (m.weight # None) <=> (m.date \in MassDays(disk))
            /\ (m.bodyFat # None) <=> (m.date \in FatDays(disk))

\* C5 (malformed workout is skipped): a workout record whose duration is
\* not numeric adds no entry, so the returned workouts are as many as the
\* document's workout records with a numeric duration, and none of them has
\* a duration that is no number.
C5_MalformedWorkoutSkipped ==
  pc = "resolved" =>
    /\ \A i \in 1..Len(returned.workouts) : returned.workouts[i].totalDuration # NaN
    /\ Len(returned.workouts)
         = Cardinality({i \in 1..Len(disk) : disk[i].k = "duration" /\ disk[i].s = ""})

\* C6 (one bad record never aborts the import): parseHealthExport is never
\* rejected by a record whose field cannot be converted; it fails only on
\* the file's name or on a failed read.  (Documents with no body-fat record,
\* whose failure is C4's.)
C6_BadRecordNeverAborts ==
  (pc = "rejected" /\ NoBodyFat(disk)) => thrown # "Invalid time value"

\* C7 (progress ordering): the percent values passed to onProgress are
\* within 0..100 and non-decreasing; a "done" report has percent 100, is the
\* last report and is made only by a call that returns; a call that has
\* returned has made it.
C7_ProgressOrdering ==
  /\ \A i \in 1..Len(reports) : reports[i].percent \in 0..100
  /\ \A i \in 1..(Len(reports) - 1) : reports[i].percent <= reports[i + 1].percent
  /\ \A i \in 1..Len(reports) :
       reports[i].phase = "done" =>
         i = Len(reports) /\ reports[i].percent = 100 /\ pc = "resolved"
  /\ pc = "resolved" => reports # << >> /\ Last(reports) = Done

\* A run of several fragments, one iteration of which emitted none.
C7_Witness ==
  /\ pc = "resolved"
  /\ Len(reports) >= 4
  /\ Len(reports) < Len(reads) + 2
  /\ reports[2].percent < reports[3].percent

BadName(lower) == endsWith(lower, DotZip) \/ ~endsWith(lower, DotXml)

\* C8 (format rejection before any work): a call whose file name, in lower
\* case, ends in ".zip" or does not end in ".xml" is rejected with no byte
\* range read, no fragment extracted, no progress report and no result.
C8_FormatRejectedFirst ==
  (pc # "none" /\ BadName(fileName)) =>
    /\ pc = "rejected"
    /\ thrown \in {"unzip first", "select an export.xml"}
    /\ reads = << >> /\ fragments = << >> /\ reports = << >>
    /\ returned = Null

\* A non-empty file named *.zip was given and refused.
C8_Witness ==
  /\ pc = "rejected" /\ endsWith(fileName, DotZip) /\ Len(disk) > 0
  /\ thrown = "unzip first"

\* C9 (read failure aborts with no partial result): when the read of a
\* chunk fails, the call is rejected, no result is returned or shown (not
\* even records of earlier chunks; the panel stays at its first stage), the
\* failed read is the last one started, no fragment was extracted from it,
\* and no "done" report is made.
C9_ReadFailureAborts ==
  thrown = "NotReadableError" =>
    /\ pc = "rejected"
    /\ returned = Null /\ result = Null
    /\ \A i \in 1..Len(reports) : reports[i].phase # "done"
    /\ Last(reads).offset = offset
    /\ Len(fragments) < Len(reads)
    /\ stage = "idle"

\* A later read failed after an earlier chunk had yielded a workout.
C9_Witness ==
  /\ thrown = "NotReadableError"
  /\ Len(reads) >= 2
  /\ Len(workouts) >= 1

\* The fragment holds the opening tag of a workout that is not closed in it.
UnclosedWorkout(frag) ==
  \E p \in 0..(Len(frag) - 1) :
    LET m == ExecAt(frag, p, "Workout", WORKOUT_REGEX)
    IN /\ m.ok
       /\ frag[m.end - 1] # Ch("/")
       /\ indexOf(frag, WorkoutClose, p) = -1

\* C10 (safe cut): no cut falls between a workout's opening tag and its
\* </Workout>: a fragment never holds a workout opening tag whose closing
\* tag is in a later fragment.
C10_SafeCut ==
  pc = "resolved" =>
    \A i \in 1..(Len(fragments) - 1) :
      UnclosedWorkout(fragments[i]) =>
        indexOf(Concat(SubSeq(fragments, i + 1, Len(fragments))), WorkoutClose, 0) = -1

\* What the three extractors leave when they are run on each of frags,
\* in order, starting from empty accumulators.
RECURSIVE WorkoutsOf(_, _)
WorkoutsOf(frags, acc) ==
  IF frags = << >> \/ acc.threw THEN acc
  ELSE WorkoutsOf(Tail(frags), extractWorkoutsFromChunk(Head(frags), acc.workouts, acc.uuid))
RECURSIVE MetricsOf(_, _)
MetricsOf(frags, acc) ==
  IF frags = << >> \/ acc.threw THEN acc
  ELSE MetricsOf(Tail(frags), extractBodyMetricsFromChunk(Head(frags), acc.metrics))
RECURSIVE DaysOf(_, _)
DaysOf(frags, days) ==
  IF frags = << >> THEN days
  ELSE DaysOf(Tail(frags), extractActivityDaysFromChunk(Head(frags), days))
AllWorkouts(frags) ==
  WorkoutsOf(frags, [workouts |-> << >>, uuid |-> 100 * parses + 1, threw |-> FALSE])
AllMetrics(frags) == MetricsOf(frags, [metrics |-> << >>, threw |-> FALSE])
AllDays(frags) == DaysOf(frags, << >>)
ButLast(seq) == SubSeq(seq, 1, Len(seq) - 1)

\* C11 (strict sequencing of chunks): the reads of one call are started in
\* ascending, contiguous offset order; while the call runs exactly one read
\* is outstanding, the one at the current offset, and the accumulators hold
\* what the three extractors give on every fragment emitted so far; when an
\* extractor throws, the extractors after it in the order workouts, body
\* metrics, activity days have not been given the fragment; and only a step
\* that ends the outstanding read changes an accumulator.
C11_StrictSequencing ==
  /\ [](/\ \A i \in 1..Len(reads) :
             /\ reads[i].offset = (i - 1) * chunkSize
             /\ reads[i].end = Min(i * chunkSize, Len(disk))
        /\ pc = "reading" =>
             /\ Last(reads).offset = offset
             /\ workouts = AllWorkouts(fragments).workouts
             /\ bodyMetricsMap = AllMetrics(fragments).metrics
             /\ activityDays = AllDays(fragments)
        /\ thrown = "Invalid time value" =>
             /\ Last(reads).offset = offset
             /\ workouts = AllWorkouts(fragments).workouts
             /\ activityDays = AllDays(ButLast(fragments))
             /\ bodyMetricsMap = IF AllWorkouts(fragments).threw
                                 THEN AllMetrics(ButLast(fragments)).metrics
                                 ELSE AllMetrics(fragments).metrics)
  /\ [][(parses' = parses /\ <<workouts, bodyMetricsMap, activityDays>>'
                             # <<workouts, bodyMetricsMap, activityDays>>)
          => /\ pc = "reading"
             /\ Len(fragments') = Len(fragments) + 1
             /\ pc' = "reading" => /\ Len(reads') = Len(reads) + 1
                                   /\ offset' = offset + chunkSize]_vars

\* A read is pending after earlier fragments have filled two accumulators.
C11_Witness ==
  /\ pc = "reading"
  /\ Len(reads) >= 3
  /\ Len(fragments) >= 2
  /\ Len(workouts) >= 1
  /\ Len(bodyMetricsMap) >= 1

\* C12 (body-metric merge skips existing dates entirely): the import leaves
\* every persisted body metric as it was, in its place; a metric it appends
\* has a date no persisted metric had; and the number it reports is the
\* number of incoming metrics whose date was not persisted.
C12_ExistingDatesSkipped ==
  [][(timer /\ stage' = "done") =>
       LET old == store.bodyMetrics
           new == store'.bodyMetrics
           dates == {old[i].date : i \in 1..Len(old)}
       IN /\ Len(new) >= Len(old)
          /\ SubSeq(new, 1, Len(old)) = old
          /\ \A j \in (Len(old) + 1)..Len(new) : new[j].date \notin dates
          /\ importCounts'.metrics = Len(new) - Len(old)
          /\ importCounts'.metrics =
               Cardinality({i \in 1..Len(result.bodyMetrics) :
                              result.bodyMetrics[i].date \notin dates})]_vars

\* An import is done whose result had a weight for a persisted date that
\* lacks one, and a metric of a new date, which is the one counted.
C12_Witness ==
  /\ stage = "done" /\ imports = 1
  /\ importCounts.metrics = 1
  /\ \E i \in 1..Len(result.bodyMetrics) : \E j \in 1..Len(store.bodyMetrics) :
       /\ result.bodyMetrics[i].date = store.bodyMetrics[j].date
       /\ result.bodyMetrics[i].weight # None
       /\ store.bodyMetrics[j].weight = None
       /\ store.bodyMetrics[j].source = "manual"

\* C13 (merge is not atomic and reports per category): once the callback
\* of the import has run, the panel has left the "importing" stage and shows
\* the outcome: the counts of a done import, or an error naming what failed.
C13_MergeOutcomeReported ==
  (stage = "importing" /\ ~timer) => (importCounts.set \/ error # "")

\* C14 (ExtractedWorkout invariant): every workout of the returned list has
\* startedAt <= completedAt and totalDuration >= 0.
C14_WorkoutInvariant ==
  pc = "resolved" =>
    \A i \in 1..Len(returned.workouts) :
      /\ returned.workouts[i].startedAt <= returned.workouts[i].completedAt
      /\ returned.workouts[i].totalDuration >= 0

\* The records of a kind and a day, by the index of their type attribute
\* (the value attribute follows it, then, for a body mass, the unit).
RecordsOn(doc, id, day) ==
  {i \in 1..Len(doc) : TypeAt(doc, i, id) /\ RecordDay(doc, i) = day}
LastWeight(doc, day) ==
  LET i == SetMax(RecordsOn(doc, "HKQuantityTypeIdentifierBodyMass", day))
  IN Weight(parseFloat(doc[i + 1]), doc[i + 2].s)
LastBodyFat(doc, day) ==
  LET i == SetMax(RecordsOn(doc, "HKQuantityTypeIdentifierBodyFatPercentage", day))
  IN Mul(Mul(parseFloat(doc[i + 1]), 100), 10)

\* C15 (last record wins per field): a document of well-formed records
\* whose reads succeed is parsed to a result in which the weight of a date
\* is the converted value of the document's last body-mass record of that
\* date, and the bodyFat of a date that of its last body-fat record.
C15_LastRecordWins ==
  (pc \in {"resolved", "rejected"} /\ thrown # "NotReadableError" /\ AllDatesValid(disk)) =>
    /\ pc = "resolved"
    /\ \A day \in MassDays(disk) : \E i \in 1..Len(returned.bodyMetrics) :
         /\ returned.bodyMetrics[i].date = day
         /\ returned.bodyMetrics[i].weight = LastWeight(disk, day)
    /\ \A day \in FatDays(disk) : \E i \in 1..Len(returned.bodyMetrics) :
         /\ returned.bodyMetrics[i].date = day
         /\ returned.bodyMetrics[i].bodyFat = LastBodyFat(disk, day)

\* p is x = end * 95 / size rounded to the nearest integer, halves up.
Rounds(p, end, size) ==
  2 * size * p <= 2 * end * 95 + size /\ 2 * end * 95 + size < 2 * size * (p + 1)
\* p is x rounded down.
Floors(p, end, size) == size * p <= end * 95 /\ end * 95 < size * (p + 1)
\* A step that ends the read of a chunk and makes a report.
Reports == pc = "reading" /\ Len(reports') > Len(reports)

\* C16 (progress percentage formula, amended): every "parsing" report
\* made after a fragment has percent equal to bytesConsumed * 95 /
\* totalBytes rounded to the nearest integer (halves up), bytesConsumed
\* being the end offset of the chunk just read; every parsing report has
\* percent <= 95 and percent 100 is reported only with phase "done".
C16_ProgressRounded ==
  /\ [][Reports =>
          /\ reports'[Len(reports) + 1].phase = "parsing"
          /\ Rounds(reports'[Len(reports) + 1].percent, Last(reads).end, Len(disk))]_vars
  /\ [](\A i \in 1..Len(reports) :
          /\ reports[i].phase = "parsing" => reports[i].percent <= 95
          /\ reports[i].percent = 100 => reports[i].phase = "done")

\* A parsing report whose percent is above the value rounded down.
C16_Witness ==
  \E i \in 2..Len(reports) : \E r \in 1..Len(reads) :
    /\ reports[i].phase = "parsing"
    /\ Rounds(reports[i].percent, reads[r].end, Len(disk))
    /\ ~Floors(reports[i].percent, reads[r].end, Len(disk))

\* C16 as stated: the percent of a parsing report made after a fragment is
\* floor(bytesConsumed * 95 / totalBytes).
C16_ProgressFloored ==
  [][Reports =>
       /\ reports'[Len(reports) + 1].phase = "parsing"
       /\ Floors(reports'[Len(reports) + 1].percent, Last(reads).end, Len(disk))]_vars

\* The text of the iteration that ends the outstanding read.
TextRead == remainder \o SliceText(disk, offset, Last(reads).end)
\* The read of a non-final chunk ends and the text has no cut point.
NoCutPoint ==
  /\ pc = "reading" /\ offset' # offset
  /\ Last(reads).end < Len(disk)
  /\ indexOf(TextRead, SelfClose, 0) = -1
  /\ indexOf(TextRead, WorkoutClose, 0) = -1

\* C17 (zero-fragment iteration): when a non-final chunk is appended to the
\* carry-over and the text holds neither "/>" nor "</Workout>", no fragment
\* is emitted, the three accumulators (and the id source) are unchanged, no
\* progress report is made, the new carry-over is the old one followed by
\* the chunk text, and the next chunk is read.
C17_ZeroFragmentIteration ==
  [][NoCutPoint =>
       /\ fragments' = fragments
       /\ UNCHANGED <<workouts, bodyMetricsMap, activityDays, uuid>>
       /\ reports' = reports
       /\ remainder' = TextRead
       /\ pc' = "reading" /\ Len(reads') = Len(reads) + 1]_vars

\* After a fragment gave a workout, an iteration has emitted nothing and
\* its text is carried over.
C17_Witness ==
  /\ pc = "reading"
  /\ Len(workouts) >= 1
  /\ Len(fragments) >= 1
  /\ Len(remainder) >= 2
  /\ Len(reports) < Len(reads)
  /\ indexOf(remainder, SelfClose, 0) = -1

\* The workout records of a document, by the 0-based index of their "<".
WorkoutOpens(doc) ==
  {p \in 0..(Len(doc) - 1) : ExecAt(doc, p, "Workout", WORKOUT_REGEX).ok}
TagEnd(doc, p) == ExecAt(doc, p, "Workout", WORKOUT_REGEX).end
SelfClosing(doc, p) == doc[TagEnd(doc, p) - 1] = Ch("/")
StartOf(doc, p) == DateTime(Group(ExecAt(doc, p, "Workout", WORKOUT_REGEX), 4))
\* The statistics of a kind inside the workout's own container: after its
\* opening tag and before the first </Workout> that follows it (none for a
\* self-closing workout), by the index of their type attribute.
OwnFields(doc, p, id) ==
  IF SelfClosing(doc, p) THEN {}
  ELSE {i \in (TagEnd(doc, p) + 1)..Len(doc) :
          /\ TypeAt(doc, i, id)
          /\ i - 1 < indexOf(doc, WorkoutClose, p)}
FirstValue(doc, p, id) == doc[SetMin(OwnFields(doc, p, id)) + 1].n
Energy == "HKQuantityTypeIdentifierActiveEnergyBurned"
Walking == "HKQuantityTypeIdentifierDistanceWalkingRunning"
Cycling == "HKQuantityTypeIdentifierDistanceCycling"
\* The document has one workout record, handed to the extractor in one piece.
OneWorkout ==
  /\ pc = "resolved"
  /\ Len(fragments) = 1
  /\ Cardinality(WorkoutOpens(disk)) = 1
  /\ Len(returned.workouts) = 1
TheWorkout == CHOOSE p \in WorkoutOpens(disk) : TRUE

\* C18 (effort is estimated exactly when energy data is found): the
\* workout carries overallEffort if and only if an active-energy field is in
\* its container, whatever the value found (0 included); the effort is one
\* of estimateEffort's values.
C18_EffortIffEnergyFound ==
  OneWorkout =>
    /\ (returned.workouts[1].overallEffort # None)
         <=> (OwnFields(disk, TheWorkout, Energy) # {})
    /\ returned.workouts[1].overallEffort # None =>
         returned.workouts[1].overallEffort \in 2..10

\* hundredths of a mile of a distance in km
Miles(km) == RoundDiv(km * 621371, 10000)

\* C19 (first distance identifier wins): the distance of the workout is
\* that of the walking/running field of its container when there is one,
\* whatever its value (0 included); that of the cycling field when there is
\* no walking/running field; and absent when there is neither.
C19_FirstDistanceWins ==
  OneWorkout =>
    returned.workouts[1].distance =
      IF OwnFields(disk, TheWorkout, Walking) # {}
      THEN Miles(FirstValue(disk, TheWorkout, Walking))
      ELSE IF OwnFields(disk, TheWorkout, Cycling) # {}
      THEN Miles(FirstValue(disk, TheWorkout, Cycling))
      ELSE None

\* C20 (auxiliary fields come only from the workout's own container): a
\* self-closing workout has no container to take statistics from, so when
\* a later workout follows it in the document, the workout returned for it
\* carries neither distance nor overallEffort.
C20_OwnContainerOnly ==
  pc = "resolved" =>
    \A p \in WorkoutOpens(disk) : \A i \in 1..Len(returned.workouts) :
      (/\ SelfClosing(disk, p)
       /\ \E q \in WorkoutOpens(disk) : q > p
       /\ returned.workouts[i].startedAt = StartOf(disk, p)) =>
        /\ returned.workouts[i].distance = None
        /\ returned.workouts[i].overallEffort = None

\* The activity-type tag of the workout record at p.
TagOf(doc, p) == Group(ExecAt(doc, p, "Workout", WORKOUT_REGEX), 1).s
CardioTags == {"HKWorkoutActivityTypeRunning", "HKWorkoutActivityTypeWalking",
               "HKWorkoutActivityTypeHiking", "HKWorkoutActivityTypeTrailRunning"}
\* The human-readable name of a tag that is no key of the table: the tag
\* text with the HKWorkoutActivityType prefix removed, its words apart.
Humanized(tag) ==
  CASE tag = "HKWorkoutActivityTypeBarre" -> "Barre"
    [] tag = "HKWorkoutActivityTypeWaterPolo" -> "Water Polo"
    [] OTHER -> tag

\* C21 (activity-type classification is total): every workout record gives
\* one workout with exactly one block; for a tag that is a key of
\* WORKOUT_TYPE_MAP the name, block type and cardioType are the entry's
\* (cardioType only for Running, Walking, Hiking, TrailRunning); for any
\* other tag the block type is "conditioning", there is no cardioType and
\* the name is the tag without the HKWorkoutActivityType prefix, made
\* human-readable.
C21_ClassificationTotal ==
  pc = "resolved" =>
    /\ Len(returned.workouts) = Cardinality(WorkoutOpens(disk))
    /\ \A p \in WorkoutOpens(disk) : \E i \in 1..Len(returned.workouts) :
         LET w == returned.workouts[i]
             tag == TagOf(disk, p)
         IN /\ w.startedAt = StartOf(disk, p)
            /\ Len(w.blocks) = 1
            /\ w.blocks[1].name = w.name
            /\ IF tag \in DOMAIN WORKOUT_TYPE_MAP
               THEN /\ w.name = WORKOUT_TYPE_MAP[tag].name
                    /\ w.blocks[1].type = WORKOUT_TYPE_MAP[tag].blockType
                    /\ w.cardioType = WORKOUT_TYPE_MAP[tag].cardioType
                    /\ (w.cardioType # "") <=> (tag \in CardioTags)
               ELSE /\ w.blocks[1].type = "conditioning"
                    /\ w.cardioType = ""
                    /\ w.name = Humanized(tag)

\* The inputs of estimateEffort the document holds: the sum of its active
\* energy statistics and the seconds of its workout's duration in minutes.
EnergyOf(doc) == doc[SetMin({i \in 1..Len(doc) : TypeAt(doc, i, Energy)}) + 1].n
SecondsOf(doc) == 60 * doc[SetMin({i \in 1..Len(doc) : doc[i].k = "duration"})].n
\* The threshold table on kcal per minute = kcal / (seconds / 60).
Thresholds == {3, 5, 7, 9, 11, 13, 15, 18}
EffortTable(kcal, seconds) ==
  2 + Cardinality({th \in Thresholds : 60 * kcal >= th * seconds})

\* C22 (estimateEffort range and monotonicity): for an active energy >= 0
\* and a duration > 0, estimateEffort is an integer in 2..10, the one the
\* threshold table gives for the kcal per minute; it does not decrease when
\* the energy grows and does not increase when the duration grows; and it
\* is the overallEffort of the workout extracted with that energy (from a
\* fragment that holds the workout whole).
C22_EffortRangeMonotone ==
  disk # << >> =>
  LET kcal == EnergyOf(disk)
      seconds == SecondsOf(disk)
  IN /\ estimateEffort(kcal, seconds) \in 2..10
     /\ estimateEffort(kcal, seconds) = EffortTable(kcal, seconds)
     /\ \A more \in EffortEnergies :
          kcal <= more => estimateEffort(kcal, seconds) <= estimateEffort(more, seconds)
     /\ \A longer \in EffortMinutes :
          seconds <= 60 * longer =>
            estimateEffort(kcal, seconds) >= estimateEffort(kcal, 60 * longer)
     /\ (pc = "resolved" /\ Len(fragments) = 1 /\ kcal > 0) =>
          /\ Len(returned.workouts) = 1
          /\ returned.workouts[1].overallEffort = EffortTable(kcal, seconds)

\* A workout of exactly 15 kcal per minute was extracted with effort 9.
C22_Witness ==
  /\ pc = "resolved" /\ Len(fragments) = 1
  /\ EnergyOf(disk) = 15 /\ SecondsOf(disk) = 60
  /\ Len(returned.workouts) = 1
  /\ returned.workouts[1].overallEffort = 9

\* The workouts without the ids crypto.randomUUID gave them and their blocks.
NoIds(ws) ==
  [i \in 1..Len(ws) |->
     [ws[i] EXCEPT !.id = 0,
                   !.blocks = [j \in 1..Len(ws[i].blocks) |->
                                 [name |-> ws[i].blocks[j].name,
                                  type |-> ws[i].blocks[j].type, id |-> 0]]]]
\* The result of the three extractors on the whole text as one fragment.
SingleFragment(text) ==
  Finalize(AllWorkouts(<<text>>).workouts, AllMetrics(<<text>>).metrics, AllDays(<<text>>))

\* C23 (chunk-size independence of the result): whatever the chunk size,
\* the result parseHealthExport returns is, up to the fresh ids, the result
\* of processing the whole document as a single fragment: same workouts
\* (name, block type, duration, distance, overallEffort, cardioType), same
\* body metrics, same activity days.
C23_ChunkSizeIndependent ==
  pc = "resolved" =>
    /\ NoIds(returned.workouts) = NoIds(SingleFragment(Utf8Decode(disk)).workouts)
    /\ returned.bodyMetrics = SingleFragment(Utf8Decode(disk)).bodyMetrics
    /\ returned.activityDays = SingleFragment(Utf8Decode(disk)).activityDays

\* Every tag that starts in the fragment ends in it.
TagsWhole(frag) ==
  \A i \in 1..Len(frag) :
    frag[i] = Ch("<") => \E j \in (i + 1)..Len(frag) : frag[j] = Ch(">")
\* The number of matches a /g pattern finds in text from lastIndex on.
RECURSIVE MatchesFrom(_, _, _, _)
MatchesFrom(text, lastIndex, name, wants) ==
  LET m == Exec(text, lastIndex, name, wants)
  IN IF ~m.ok THEN 0 ELSE 1 + MatchesFrom(text, m.end, name, wants)
\* The matches found in the fragments, each searched on its own.
RECURSIVE MatchesIn(_, _, _)
MatchesIn(frags, name, wants) ==
  IF frags = << >> THEN 0
  ELSE MatchesFrom(Head(frags), 0, name, wants) + MatchesIn(Tail(frags), name, wants)

C25_CarryOver ==
  /\ pc = "reading" =>
       /\ indexOf(remainder, SelfClose, 0) = -1
       /\ indexOf(remainder, WorkoutClose, 0) = -1
       /\ offset = 0 => remainder = << >>
  /\ pc = "resolved" => remainder = << >>

\* After two fragments the text carried over is the start of a tag.
C25_Witness ==
  /\ pc = "reading"
  /\ Len(fragments) >= 2
  /\ Len(remainder) >= 2
  /\ remainder[1] = Ch("<")

\* No two entries of the sequence have the same value of the field.
UniqueBy(seq, key) ==
  \A i \in 1..Len(seq) : \A j \in 1..Len(seq) : seq[i][key] = seq[j][key] => i = j

\* C26 (store uniqueness by identity key after merge): from a store with
\* no two entries of one identity key, whatever is imported, the persisted
\* activity days have at most one entry per date and the persisted workouts
\* at most one per start timestamp, also when one result holds several
\* activity days of one date or several workouts of one start.
C26_StoreUnique ==
  /\ UniqueBy(store.activityDays, DateOf)
  /\ UniqueBy(store.sessions, StartedAt)

\* ceil(a / b)
Ceil(a, b) == (a + b - 1) \div b

\* C27 (termination and completeness of parseHealthExport): a call with an
\* accepted name whose reads all succeed has, when it ends, made
\* ceil(size / chunkSize) reads, one of each byte range
\* [offset, min(offset + chunkSize, size)) in ascending order; it returns
\* nothing while a read is outstanding, and what it returns was extracted
\* from fragments that hold the document up to its last byte.
C27_TerminatesComplete ==
  /\ pc = "reading" => returned = Null
  /\ (pc \in {"resolved", "rejected"} /\ ~BadName(fileName)
                                       /\ thrown # "NotReadableError") =>
       /\ Len(reads) = Ceil(Len(disk), chunkSize)
       /\ \A i \in 1..Len(reads) :
            /\ reads[i].offset = (i - 1) * chunkSize
            /\ reads[i].end = Min(i * chunkSize, Len(disk))
       /\ pc = "resolved" => Concat(fragments) = Utf8Decode(disk)

\* The moves of the import stage that the interface offers.
StageMoves ==
  {<<"idle", "parsing">>, <<"parsing", "preview">>, <<"parsing", "idle">>,
   <<"preview", "importing">>, <<"preview", "idle">>,
   <<"importing", "done">>, <<"done", "idle">>}

\* C28: the import stage moves only idle -> parsing -> preview -> importing
\* -> done, from parsing back to idle only when the parse failed, and from
\* preview or done back to idle on reset; the store is merged into only by
\* the callback of a confirmation made in the preview with a parse result
\* at hand, at most once per parsed result; and a cancel from the preview or
\* a failed parse leaves the store as it was, with no result kept.
C28_StageMachine ==
  /\ [](stage \in {"idle", "parsing"} => result = Null)
  /\ [](imports <= parses)
  /\ [][/\ stage' # stage => <<stage, stage'>> \in StageMoves
        /\ (stage = "parsing" /\ stage' = "idle") =>
             pc' = "rejected" /\ error' = thrown' /\ error' # ""
        /\ (stage = "parsing" /\ stage' = "preview") =>
             pc' = "resolved" /\ result' = returned' /\ result' # Null
        /\ (stage = "preview" /\ stage' = "importing") =>
             result # Null /\ result' = result /\ timer' /\ store' = store
        /\ (store' # store \/ imports' # imports) =>
             /\ stage = "importing" /\ timer /\ ~timer' /\ result # Null
             /\ imports' = imports + 1
             /\ stage' = "done"
        /\ (stage \in {"preview", "parsing"} /\ stage' = "idle") =>
             store' = store /\ result' = Null]_vars

\* A second export was imported after the first one was parsed and given up.
C28_Witness ==
  stage = "done" /\ imports = 1 /\ parses = 2 /\ importCounts # NoCounts

\* The calls of performInitialSync for a user that went through an upload or
\* download round.
RoundsFor(userId) == {i \in DOMAIN syncs : syncs[i].userId = userId /\ syncs[i].round}
ReloadsFor(userId) == {k \in DOMAIN reloads : reloads[k] = userId}

\* C29: within one session performInitialSync goes through at most one
\* upload/download round and at most one page reload for a user, also when a
\* call starts while another one is waiting for hasCloudData, uploadAllData
\* or downloadAllData; and a call that finds the flag holding its user id
\* only reports "synced".
C29_OncePerSession ==
  /\ [](\A userId \in Users : /\ Cardinality(RoundsFor(userId)) <= 1
                              /\ Cardinality(ReloadsFor(userId)) <= 1)
  /\ [][(Len(syncs') > Len(syncs) /\ sessionStorage = Last(syncs').userId) =>
          /\ Last(syncs').at = "returned"
          /\ syncStatus' = "synced"
          /\ rounds' = rounds /\ reloads' = reloads
          /\ cloud' = cloud /\ localHasData' = localHasData]_vars

\* The uploads that a timeout started, and the calls that end a burst: the
\* last call so far, and every call that the next one follows by no less
\* than the debounce delay.
TimerUploads == {r \in DOMAIN rounds : rounds[r].by = 0}
EndsBurst(k) ==
  k = Len(scheduled) \/ scheduled[k + 1].at - scheduled[k].at >= SYNC_DEBOUNCE_MS
UploadsOf(k) == {r \in TimerUploads : rounds[r].calls = k}

====
